---- MODULE Spec2Model ----
(***************************************************************************)
(* Flow-control core of the call center: the journey engine (activation,   *)
(* transition, persistence of journey contexts), the tool executor (rate   *)
(* limiter and result cache), the guideline matcher, the post-response     *)
(* validator and the two pipeline processors that call them.  One turn of  *)
(* JourneyEngine.process_message is one action; the model's answers, the   *)
(* health of the key/value service during the turn and a failure of one    *)
(* durable-store call are the turn's inputs.                               *)
(***************************************************************************)
EXTENDS Integers, Sequences, FiniteSets, TLC

VARIABLES
  db,      \* table journey_contexts: the rows in insertion order (id = position)
  l1,      \* L1 cache: ids of the journey definitions stored under l1:journey:def:{id}
  l2,      \* L2 cache: <<session_id, utterance>> -> cached activation result
  last,    \* what the most recent engine operation did and returned
  kv,      \* key/value service: tool:ratelimit:{tool}:{identifier} -> counter
  pc,      \* position of each caller's ToolExecutor.execute call
  local,   \* each call's locals: identifier, the current_count it read
  window,  \* per counter key: calls admitted and callable runs since the key last expired
  l3,      \* L3 cache: <<tool, identifier>> -> the cached tool result
  audit,   \* table validation_audit: the rows in insertion order
  vlast,   \* what the most recent validate_response call did and returned
  frame,   \* the session's pipeline: the frame last processed and what was done to it
  held,    \* the JourneyContext object a caller of the engine keeps between its calls
  object,  \* a JourneyContext object with its timestamps, and the method last called on it
  clock,   \* datetime.utcnow()
  mlast,   \* the call of match_guidelines last made: its arguments, the model's
           \* answer and the list returned
  glast,   \* the Guideline objects last built or scored: the loader's input, the
           \* object, the scores
  dlast    \* the directory of journey files last loaded and the list returned

jvars == <<db, l1, l2, last>>
tvars == <<kv, pc, local, window, l3>>
gvars == <<audit, vlast, frame>>
hvars == <<held>>
ovars == <<object, clock>>
mvars == <<mlast>>
rvars == <<glast>>
dvars == <<dlast>>
vars == <<db, l1, l2, last, kv, pc, local, window, l3, audit, vlast, frame, held,
          object, clock, mlast, glast, dlast>>

NULL == "null"

(***************************** bounds ***************************************)
MaxEvents == 3       \* state_history events over all contexts (one per activation)
Sessions == {"s1", "s2"}
Utterances == {"u1"}

(************************ journey definitions *******************************)
\* Table journeys.  J1 is the claim_inquiry journey of the seed data, J3 a
\* journey whose enabled flag is off.
Journeys ==
  [J1 |-> [id |-> "J1", name |-> "claim_inquiry",
           initial_state |-> "verify_identity",
           states |-> {"verify_identity", "provide_status", "closing"},
           transitions |->
             << [from_state |-> "verify_identity", to_state |-> "provide_status",
                 priority |-> 10],
                [from_state |-> "provide_status", to_state |-> "closing",
                 priority |-> 0] >>,
           enabled |-> TRUE],
   J3 |-> [id |-> "J3", name |-> "retired_flow",
           initial_state |-> "start",
           states |-> {"start"},
           transitions |-> << >>,
           enabled |-> FALSE]]

JourneyIds == DOMAIN Journeys
EnabledIds == {j \in JourneyIds : Journeys[j].enabled}
\* A well-formed UUID that names no row, and a string that is no UUID.
UnknownId == "unknown-uuid"
MalformedId == "not-a-uuid"

\* Journey.get_state: the state's name, or NULL when the map has no such key.
get_state(journey, state_name) ==
  IF state_name \in journey.states THEN state_name ELSE NULL

\* Journey.get_transitions_from
get_transitions_from(journey, state_name) ==
  SelectSeq(journey.transitions, LAMBDA t : t.from_state = state_name)

DeclaredTargets(journey, state_name) ==
  {journey.transitions[i].to_state :
     i \in {k \in 1..Len(journey.transitions) :
              journey.transitions[k].from_state = state_name}}

(*************************** journey context ********************************)
\* JourneyContext.  completed_at = 0 stands for None, a positive value for a
\* time.  id = 0 is "no context" (None).
NoContext ==
  [id |-> 0, session_id |-> NULL, journey_id |-> NULL, current_state |-> NULL,
   variables |-> {}, state_history |-> << >>, completed_at |-> 0]

Event(kind, from, to) == [event |-> kind, from_state |-> from, to_state |-> to]

\* is_active that never reports a completed context.
is_active_always(ctx) == TRUE

is_active(ctx) == ctx.completed_at = 0

\* JourneyContext.add_to_history
add_to_history(ctx, event) ==
  [ctx EXCEPT !.state_history = Append(@, event)]

\* transition_to with current_state assigned before the event is built.
transition_to_assign_first(ctx, new_state) ==
  [add_to_history(ctx, Event("state_transition", new_state, new_state))
     EXCEPT !.current_state = new_state]

\* JourneyContext.transition_to
transition_to(ctx, new_state) ==
  [add_to_history(ctx, Event("state_transition", ctx.current_state, new_state))
     EXCEPT !.current_state = new_state]

\* JourneyContext.complete at time now (the event carries final_state in
\* from_state): completed_at = datetime.utcnow().
complete_at(ctx, now) ==
  add_to_history([ctx EXCEPT !.completed_at = now],
                 Event("journey_completed", ctx.current_state, NULL))

\* JourneyContext.complete where only "completed_at is set" matters.
complete(ctx) == complete_at(ctx, 1)

\* JourneyContext.set_variable
set_variable(ctx, key, value) ==
  [ctx EXCEPT !.variables = {p \in @ : p[1] # key} \cup {<<key, value>>}]

(****************************** journey store *******************************)
\* get_active_context without "session_id = $1" in its WHERE clause.
GetActiveContextAnySession(d, s) ==
  LET act == {i \in 1..Len(d) : d[i].completed_at = 0}
  IN IF act = {} THEN NoContext
     ELSE d[CHOOSE i \in act : \A k \in act : k <= i]

\* JourneyStore.get_active_context: the session's not-completed row with the
\* latest activated_at (rows are activated in insertion order).
GetActiveContext(d, s) ==
  LET act == {i \in 1..Len(d) : d[i].session_id = s /\ d[i].completed_at = 0}
  IN IF act = {} THEN NoContext
     ELSE d[CHOOSE i \in act : \A k \in act : k <= i]

\* create_context without the activation event.
CreateContextNoEvent(d, s, journey) ==
  [id |-> Len(d) + 1, session_id |-> s, journey_id |-> journey.id,
   current_state |-> journey.initial_state, variables |-> {},
   state_history |-> << >>, completed_at |-> 0]

\* JourneyStore.create_context: the new context, with its activation event.
CreateContext(d, s, journey) ==
  add_to_history(
    [id |-> Len(d) + 1, session_id |-> s, journey_id |-> journey.id,
     current_state |-> journey.initial_state, variables |-> {},
     state_history |-> << >>, completed_at |-> 0],
    Event("journey_activated", NULL, journey.initial_state))

\* JourneyStore.update_context: UPDATE ... WHERE id = context.id
UpdateContext(d, ctx) ==
  [i \in 1..Len(d) |->
     IF d[i].id = ctx.id
     THEN [d[i] EXCEPT !.current_state = ctx.current_state,
                       !.variables = ctx.variables,
                       !.state_history = ctx.state_history,
                       !.completed_at = ctx.completed_at]
     ELSE d[i]]

\* get_journey with a key/value error reaching the caller.
GetJourneyKVRaises(jid, l1v, kvOk, dbFails) ==
  IF ~kvOk
  THEN [journey |-> NULL, raised |-> TRUE, l1 |-> l1v]
  ELSE IF jid \in l1v
  THEN [journey |-> jid, raised |-> FALSE, l1 |-> l1v]
  ELSE IF dbFails \/ jid = MalformedId
  THEN [journey |-> NULL, raised |-> TRUE, l1 |-> l1v]
  ELSE IF jid \in EnabledIds
  THEN [journey |-> jid, raised |-> FALSE, l1 |-> l1v \cup {jid}]
  ELSE [journey |-> NULL, raised |-> FALSE, l1 |-> l1v]

\* JourneyStore.get_journey: L1 first, then the journeys table (enabled rows
\* only), refilling L1.  A failing query, or an id the database cannot read as
\* a UUID, raises; a failing cache read is a miss and a failing write stores
\* nothing.  Result: the journey's id (NULL for None), raised, the new L1.
GetJourney(jid, l1v, kvOk, dbFails) ==
  IF kvOk /\ jid \in l1v
  THEN [journey |-> jid, raised |-> FALSE, l1 |-> l1v]
  ELSE IF dbFails \/ jid = MalformedId
  THEN [journey |-> NULL, raised |-> TRUE, l1 |-> l1v]
  ELSE IF jid \in EnabledIds
  THEN [journey |-> jid, raised |-> FALSE,
        l1 |-> IF kvOk THEN l1v \cup {jid} ELSE l1v]
  ELSE [journey |-> NULL, raised |-> FALSE, l1 |-> l1v]

(***************************** journey matcher ******************************)
\* The model's activation answer (confidence in tenths).  present = FALSE is
\* a failed model call as an answer, and an empty slot as a cache value.
Result(m, j, c) == [present |-> TRUE, matched |-> m, journey_id |-> j, confidence |-> c]
NoResult == [present |-> FALSE, matched |-> FALSE, journey_id |-> NULL, confidence |-> 0]

ActivationAnswers ==
  { Result(TRUE, "J1", 9), Result(TRUE, "J1", 5), Result(FALSE, "J1", 9),
    Result(TRUE, "J3", 9), Result(TRUE, UnknownId, 9), Result(TRUE, MalformedId, 9),
    Result(FALSE, NULL, 9), NoResult }

\* The model's transition answer; failed = TRUE is a failed model call.
\* "closing" is a state of J1 that no transition from verify_identity declares,
\* "bogus" a name that is no state of any journey.
NoAnswer == [failed |-> TRUE, should_transition |-> FALSE, to_state |-> NULL]
TransitionAnswers ==
  [failed : {FALSE}, should_transition : {TRUE},
   to_state : {"provide_status", "closing", "bogus", NULL}]
  \cup {[failed |-> FALSE, should_transition |-> FALSE, to_state |-> NULL],
        [failed |-> FALSE, should_transition |-> FALSE, to_state |-> "closing"],
        NoAnswer}

\* JourneyMatcher.activate_journey.  fault names the durable-store call that
\* fails in this turn.  Result: the journey (NULL for None), whether an
\* exception left the method, the caches, whether the model was called, the
\* answer acted on (from the model or from L2) and the fault that happened.
ActivateJourney(s, u, l1v, l2v, kvOk, fault, ans) ==
  LET cached == IF kvOk THEN l2v[<<s, u>>] ELSE NoResult
      base == [journey |-> NULL, raised |-> FALSE, l1 |-> l1v, l2 |-> l2v,
               model_called |-> FALSE, result |-> NoResult, fault |-> NULL]
  IN
  IF cached.present
  THEN IF cached.journey_id # NULL
       THEN LET g == GetJourney(cached.journey_id, l1v, kvOk, fault = "get_journey")
            IN [base EXCEPT !.journey = g.journey, !.raised = g.raised, !.l1 = g.l1,
                            !.result = cached,
                            !.fault = IF g.raised /\ fault = "get_journey"
                                      THEN fault ELSE NULL]
       ELSE [base EXCEPT !.result = cached]
  ELSE IF fault = "get_all_journeys"
  THEN [base EXCEPT !.raised = TRUE, !.fault = fault]
  ELSE IF EnabledIds = {}
  THEN base
  ELSE IF ~ans.present
  THEN [base EXCEPT !.model_called = TRUE, !.fault = "model"]
  ELSE
    LET stored == IF kvOk THEN [l2v EXCEPT ![<<s, u>>] = ans] ELSE l2v
        called == [base EXCEPT !.model_called = TRUE, !.l2 = stored, !.result = ans]
    IN
    IF ans.matched /\ ans.journey_id # NULL
    THEN IF ans.journey_id = MalformedId
         THEN called
         ELSE LET g == GetJourney(ans.journey_id, l1v, kvOk, fault = "get_journey")
              IN IF g.raised
                 THEN [called EXCEPT !.fault = IF fault = "get_journey"
                                               THEN fault ELSE @]
                 ELSE [called EXCEPT !.journey = g.journey, !.l1 = g.l1]
    ELSE called

\* JourneyMatcher.can_transition: the target state's name, or NULL.
\* can_transition without its try/except: a failed model call raises.
CanTransitionUncaught(journey, current_state, ans) ==
  LET none == [called |-> FALSE, target |-> NULL, failed |-> FALSE, raised |-> FALSE]
  IN
  IF get_transitions_from(journey, current_state) = << >>
  THEN none
  ELSE IF ans.failed
  THEN [none EXCEPT !.called = TRUE, !.failed = TRUE, !.raised = TRUE]
  ELSE IF ans.should_transition /\ ans.to_state # NULL
  THEN [none EXCEPT !.called = TRUE, !.target = ans.to_state]
  ELSE [none EXCEPT !.called = TRUE]

\* called: the model was asked; failed: its call failed; raised: an exception
\* left the method (the method catches every exception of the model call).
CanTransition(journey, current_state, ans) ==
  LET none == [called |-> FALSE, target |-> NULL, failed |-> FALSE, raised |-> FALSE]
  IN
  IF get_transitions_from(journey, current_state) = << >>
  THEN none
  ELSE IF ans.failed
  THEN [none EXCEPT !.called = TRUE, !.failed = TRUE]
  ELSE IF ans.should_transition /\ ans.to_state # NULL
  THEN [none EXCEPT !.called = TRUE, !.target = ans.to_state]
  ELSE [none EXCEPT !.called = TRUE]
(****************************** journey engine ******************************)
\* Durable-store calls of a turn, one of which may fail ("none": none does).
Faults ==
  {"none", "get_active_context", "get_all_journeys", "get_journey",
   "create_context", "update_context"}

\* The record kept of the most recent operation: what it was called on, which
\* matcher methods it invoked, what they returned, what it raised and returned.
NoObs ==
  [op |-> "none", session |-> NULL,
   had_context |-> FALSE,            \* get_active_context returned a context
   activate_called |-> FALSE,        \* activate_journey was invoked
   model_called |-> FALSE,           \* activate_journey asked the model
   can_transition_called |-> FALSE,  \* can_transition was invoked
   result |-> NoResult,              \* the activation answer acted on
   created |-> FALSE,                \* create_context inserted a row
   from_state |-> NULL,              \* current_state given to can_transition
   target |-> NULL,                  \* what can_transition returned
   model_failed |-> NULL,            \* the matcher method whose model call failed
   fault |-> NULL,                   \* the durable-store call that failed
   raised |-> FALSE,                 \* an exception left the operation
   context |-> NoContext,            \* the in-memory context (returned, or as left)
   state |-> NULL,                   \* the returned current state
   is_new_journey |-> FALSE, transition_occurred |-> FALSE,
   journey_activated |-> FALSE,
   pre |-> NoContext,                \* the context as it was before can_transition
   wrote |-> FALSE,                  \* a durable write of the context succeeded
   kv_ok |-> TRUE]                   \* the key/value service answered during the turn

Outcome(d, l1v, l2v, obs) == [db |-> d, l1 |-> l1v, l2 |-> l2v, obs |-> obs]

\* execute_transition with the write's exception swallowed.
ExecuteTransitionOnSwallowed(d, ctx, target_state, writeFails) ==
  LET moved == transition_to(ctx, target_state)
  IN [db |-> IF writeFails THEN d ELSE UpdateContext(d, moved),
      context |-> moved, write_failed |-> writeFails, raised |-> FALSE]

\* JourneyEngine.execute_transition: transition_to, then update_context.
\* Result: the table, the in-memory context, whether the write failed and
\* whether its exception left execute_transition.
ExecuteTransitionOn(d, ctx, target_state, writeFails) ==
  LET moved == transition_to(ctx, target_state)
  IN [db |-> IF writeFails THEN d ELSE UpdateContext(d, moved),
      context |-> moved, write_failed |-> writeFails, raised |-> writeFails]

\* process_message from "Get journey definition" on (engine.py lines 82-124).
Advance(d, l1v, l2v, ctx, kvOk, fault, tr, obs) ==
  LET g == GetJourney(ctx.journey_id, l1v, kvOk, fault = "get_journey")
      o1 == [obs EXCEPT !.context = ctx, !.pre = ctx]
  IN
  IF g.raised
  THEN Outcome(d, l1v, l2v,
               [o1 EXCEPT !.raised = TRUE,
                          !.fault = IF fault = "get_journey" THEN fault ELSE @])
  ELSE IF g.journey = NULL
  THEN Outcome(d, g.l1, l2v, o1)
  ELSE
    LET journey == Journeys[g.journey]
        current_state == get_state(journey, ctx.current_state)
    IN
    IF current_state = NULL
    THEN Outcome(d, g.l1, l2v, o1)
    ELSE
      LET ct == CanTransition(journey, ctx.current_state, tr)
          o2 == [o1 EXCEPT !.can_transition_called = TRUE,
                           !.from_state = ctx.current_state,
                           !.target = ct.target,
                           !.model_failed = IF ct.failed THEN "can_transition" ELSE @]
      IN
      IF ct.raised
      THEN Outcome(d, g.l1, l2v, [o2 EXCEPT !.raised = TRUE])
      ELSE IF ct.target # NULL
      THEN LET x == ExecuteTransitionOn(d, ctx, ct.target, fault = "update_context")
               o3 == [o2 EXCEPT !.context = x.context,
                                !.wrote = ~x.write_failed,
                                !.fault = IF x.write_failed
                                          THEN "update_context" ELSE @]
           IN IF x.raised
              THEN Outcome(x.db, g.l1, l2v, [o3 EXCEPT !.raised = TRUE])
              ELSE Outcome(x.db, g.l1, l2v,
                           [o3 EXCEPT !.transition_occurred = TRUE,
                                      !.state = get_state(journey, ct.target)])
      ELSE Outcome(d, g.l1, l2v, [o2 EXCEPT !.state = current_state])

\* process_message trying an activation on every turn.
NotContextAlways(context) == TRUE

\* process_message, "if not context:"
NotContext(context) == context.id = 0

\* JourneyEngine.process_message(session_id, user_message): one whole turn.
\* kvOk: the key/value service answers during the turn; fault: the failing
\* durable-store call; ans, tr: the model's activation and transition answers.
Turn(d, l1v, l2v, s, u, kvOk, fault, ans, tr) ==
  LET start == [NoObs EXCEPT !.op = "process_message", !.session = s,
                             !.kv_ok = kvOk]
  IN
  IF fault = "get_active_context"
  THEN Outcome(d, l1v, l2v, [start EXCEPT !.raised = TRUE, !.fault = fault])
  ELSE
    LET context == GetActiveContext(d, s)
        o0 == [start EXCEPT !.had_context = (context.id # 0)]
    IN
    IF ~NotContext(context)
    THEN Advance(d, l1v, l2v, context, kvOk, fault, tr, o0)
    ELSE
      LET a == ActivateJourney(s, u, l1v, l2v, kvOk, fault, ans)
          o1 == [o0 EXCEPT !.activate_called = TRUE, !.result = a.result,
                           !.model_called = a.model_called,
                           !.model_failed = IF a.fault = "model" THEN "activate_journey" ELSE @,
                           !.fault = IF a.fault \in {NULL, "model"} THEN @ ELSE a.fault]
      IN
      IF a.raised
      THEN Outcome(d, a.l1, a.l2, [o1 EXCEPT !.raised = TRUE])
      ELSE IF a.journey = NULL
      THEN Outcome(d, a.l1, a.l2, o1)
      ELSE IF fault = "create_context"
      THEN Outcome(d, a.l1, a.l2, [o1 EXCEPT !.raised = TRUE, !.fault = fault])
      ELSE
        LET created == CreateContext(d, s, Journeys[a.journey])
        IN Advance(Append(d, created), a.l1, a.l2, created, kvOk, fault, tr,
                   [o1 EXCEPT !.created = TRUE, !.is_new_journey = TRUE,
                              !.journey_activated = TRUE])

RECURSIVE Events(_, _)
Events(d, n) == IF n = 0 THEN 0 ELSE Len(d[n].state_history) + Events(d, n - 1)

\* The bound of the model: the events of the table, with row ctx.id taken as
\* the in-memory context ctx, number at most MaxEvents.
WithinBounds(d, ctx) ==
  /\ Events(d, Len(d)) <= MaxEvents
  /\ ctx.id \in 1..Len(d) =>
       Events(d, Len(d)) - Len(d[ctx.id].state_history) + Len(ctx.state_history)
         <= MaxEvents

\* The faults a turn can meet, given whether the session has a context.
TurnFaults(hasContext) ==
  IF hasContext THEN {"none", "get_active_context", "get_journey", "update_context"}
  ELSE Faults

\* The turn's inputs are drawn as far as the turn reads them: the activation
\* answer when the session has no context, the transition answer when the
\* turn reaches can_transition; a fault is drawn only where it takes effect.
ProcessMessageWith(S, faults, answers) ==
  \E s \in S, u \in Utterances, kvOk \in BOOLEAN :
    LET hasContext == GetActiveContext(db, s).id # 0
    IN
    \E fault \in TurnFaults(hasContext) \cap faults,
       ans \in IF hasContext THEN {NoResult} ELSE answers :
      LET first == Turn(db, l1, l2, s, u, kvOk, fault, ans, NoAnswer)
      IN
      \E tr \in IF first.obs.can_transition_called THEN TransitionAnswers ELSE {NoAnswer} :
        LET r == Turn(db, l1, l2, s, u, kvOk, fault, ans, tr)
        IN /\ fault # "none" => r.obs.fault = fault
           /\ fault = "get_active_context" => kvOk
           /\ WithinBounds(r.db, r.obs.context)
           /\ db' = r.db /\ l1' = r.l1 /\ l2' = r.l2 /\ last' = r.obs
           /\ UNCHANGED <<tvars, gvars, hvars, ovars, mvars, rvars, dvars>>

ProcessMessageOf(S) == ProcessMessageWith(S, Faults, ActivationAnswers)

ProcessMessage == ProcessMessageOf({"s1"})

\* JourneyEngine.execute_transition called directly on the context of row i,
\* with a target the journey declares from the current state.
ExecuteTransition ==
  \E i \in 1..Len(db), writeFails \in BOOLEAN :
    \E target \in DeclaredTargets(Journeys[db[i].journey_id], db[i].current_state) :
      LET x == ExecuteTransitionOn(db, db[i], target, writeFails)
      IN /\ WithinBounds(x.db, x.context)
         /\ db' = x.db
         /\ last' = [NoObs EXCEPT !.op = "execute_transition",
                                  !.session = db[i].session_id,
                                  !.pre = db[i], !.context = x.context,
                                  !.raised = x.raised, !.wrote = ~x.write_failed,
                                  !.fault = IF x.write_failed
                                            THEN "update_context" ELSE NULL]
         /\ UNCHANGED <<l1, l2>> /\ UNCHANGED <<tvars, gvars, hvars, ovars, mvars, rvars, dvars>>

\* JourneyEngine.complete_journey on the context of row i.
CompleteJourney ==
  \E i \in 1..Len(db), writeFails \in BOOLEAN :
    LET o == [NoObs EXCEPT !.op = "complete_journey", !.session = db[i].session_id,
                           !.pre = db[i]]
    IN
    IF ~is_active(db[i])
    THEN /\ ~writeFails
         /\ last' = [o EXCEPT !.context = db[i]]
         /\ UNCHANGED <<db, l1, l2>> /\ UNCHANGED <<tvars, gvars, hvars, ovars, mvars, rvars, dvars>>
    ELSE LET done == complete(db[i])
         IN /\ WithinBounds(db, done)
            /\ db' = IF writeFails THEN db ELSE UpdateContext(db, done)
            /\ last' = [o EXCEPT !.context = done, !.raised = writeFails,
                                 !.wrote = ~writeFails,
                                 !.fault = IF writeFails THEN "update_context" ELSE NULL]
            /\ UNCHANGED <<l1, l2>> /\ UNCHANGED <<tvars, gvars, hvars, ovars, mvars, rvars, dvars>>

VariableKeys == {"identity_verified"}
VariableValues == {"true"}

\* JourneyEngine.set_context_variable on the context of row i.
SetContextVariable ==
  \E i \in 1..Len(db), key \in VariableKeys, value \in VariableValues,
     writeFails \in BOOLEAN :
    LET changed == set_variable(db[i], key, value)
    IN /\ db' = IF writeFails THEN db ELSE UpdateContext(db, changed)
       /\ last' = [NoObs EXCEPT !.op = "set_context_variable",
                                !.session = db[i].session_id,
                                !.pre = db[i], !.context = changed,
                                !.raised = writeFails, !.wrote = ~writeFails,
                                !.fault = IF writeFails THEN "update_context" ELSE NULL]
       /\ UNCHANGED <<l1, l2>> /\ UNCHANGED <<tvars, gvars, hvars, ovars, mvars, rvars, dvars>>

\* A caller of the engine loads the active context of session s1 with
\* JourneyStore.get_active_context and keeps the object.
GetActiveContextCall ==
  LET context == GetActiveContext(db, "s1")
  IN /\ context.id # 0
     /\ held' = context
     /\ last' = [NoObs EXCEPT !.op = "get_active_context", !.session = "s1",
                              !.context = context]
     /\ UNCHANGED <<db, l1, l2>> /\ UNCHANGED <<tvars, gvars, ovars, mvars, rvars, dvars>>

\* JourneyEngine.execute_transition on the object the caller keeps.
ExecuteTransitionHeld ==
  /\ held.id # 0
  /\ \E target \in DeclaredTargets(Journeys[held.journey_id], held.current_state),
        writeFails \in BOOLEAN :
       LET x == ExecuteTransitionOn(db, held, target, writeFails)
       IN /\ WithinBounds(x.db, x.context)
          /\ db' = x.db
          /\ held' = x.context
          /\ last' = [NoObs EXCEPT !.op = "execute_transition",
                                   !.session = held.session_id,
                                   !.pre = held, !.context = x.context,
                                   !.raised = x.raised, !.wrote = ~x.write_failed,
                                   !.fault = IF x.write_failed
                                             THEN "update_context" ELSE NULL]
  /\ UNCHANGED <<l1, l2>> /\ UNCHANGED <<tvars, gvars, ovars, mvars, rvars, dvars>>

\* JourneyEngine.complete_journey on the object the caller keeps.
CompleteJourneyHeld ==
  /\ held.id # 0
  /\ LET o == [NoObs EXCEPT !.op = "complete_journey", !.session = held.session_id,
                            !.pre = held]
     IN IF ~is_active(held)
        THEN /\ last' = [o EXCEPT !.context = held]
             /\ UNCHANGED <<db, held>>
        ELSE \E writeFails \in BOOLEAN :
               LET done == complete(held)
               IN /\ WithinBounds(db, done)
                  /\ db' = IF writeFails THEN db ELSE UpdateContext(db, done)
                  /\ held' = done
                  /\ last' = [o EXCEPT !.context = done, !.raised = writeFails,
                                       !.wrote = ~writeFails,
                                       !.fault = IF writeFails
                                                 THEN "update_context" ELSE NULL]
  /\ UNCHANGED <<l1, l2>> /\ UNCHANGED <<tvars, gvars, ovars, mvars, rvars, dvars>>

\* JourneyEngine.set_context_variable on the object the caller keeps.
SetContextVariableHeld ==
  /\ held.id # 0
  /\ \E key \in VariableKeys, value \in VariableValues, writeFails \in BOOLEAN :
       LET changed == set_variable(held, key, value)
       IN /\ db' = IF writeFails THEN db ELSE UpdateContext(db, changed)
          /\ held' = changed
          /\ last' = [NoObs EXCEPT !.op = "set_context_variable",
                                   !.session = held.session_id,
                                   !.pre = held, !.context = changed,
                                   !.raised = writeFails, !.wrote = ~writeFails,
                                   !.fault = IF writeFails
                                             THEN "update_context" ELSE NULL]
  /\ UNCHANGED <<l1, l2>> /\ UNCHANGED <<tvars, gvars, ovars, mvars, rvars, dvars>>

HandleInit == held = NoContext

(************************ a JourneyContext object ***************************)
MaxClock == 3        \* readings of datetime.utcnow()
MaxHistory == 3      \* events in the object's state_history

\* The object with its timestamps (0 stands for None), how it was made, and
\* the method last called on it with its argument.
NoObject ==
  [op |-> "none", arg |-> NULL, made_by |-> NULL,
   context |-> [id |-> 0, session_id |-> NULL, journey_id |-> NULL,
                current_state |-> NULL, variables |-> {}, state_history |-> << >>,
                completed_at |-> 0, updated_at |-> 0]]

\* JourneyContext(id, session_id, journey_id, journey_name, current_state):
\* the dataclass constructor, state_history and the timestamps at their
\* defaults.
NewJourneyContext ==
  \E state \in Journeys["J1"].states :
    /\ object' = [op |-> "construct", arg |-> state, made_by |-> "constructor",
                  context |-> [id |-> 1, session_id |-> "s1", journey_id |-> "J1",
                               current_state |-> state, variables |-> {},
                               state_history |-> << >>,
                               completed_at |-> 0, updated_at |-> 0]]
    /\ UNCHANGED clock
    /\ UNCHANGED <<jvars, tvars, gvars, hvars, mvars, rvars, dvars>>

\* JourneyStore.create_context: the constructor with updated_at = now, then
\* the journey_activated event.
NewCreatedContext ==
  LET created == CreateContext(<< >>, "s1", Journeys["J1"])
  IN /\ object' = [op |-> "create_context", arg |-> NULL, made_by |-> "create_context",
                   context |-> [id |-> created.id, session_id |-> created.session_id,
                                journey_id |-> created.journey_id,
                                current_state |-> created.current_state,
                                variables |-> created.variables,
                                state_history |-> created.state_history,
                                completed_at |-> created.completed_at,
                                updated_at |-> clock]]
     /\ UNCHANGED clock
     /\ UNCHANGED <<jvars, tvars, gvars, hvars, mvars, rvars, dvars>>

\* context.transition_to(new_state)
TransitionToCall ==
  /\ object.made_by # NULL
  /\ Len(object.context.state_history) < MaxHistory
  /\ \E new_state \in Journeys["J1"].states :
       object' = [object EXCEPT !.op = "transition_to", !.arg = new_state,
                                !.context = transition_to(@, new_state)]
  /\ UNCHANGED clock
  /\ UNCHANGED <<jvars, tvars, gvars, hvars, mvars, rvars, dvars>>

\* context.complete()
CompleteCall ==
  /\ object.made_by # NULL
  /\ Len(object.context.state_history) < MaxHistory
  /\ object' = [object EXCEPT !.op = "complete", !.arg = NULL,
                              !.context = complete_at(@, clock)]
  /\ UNCHANGED clock
  /\ UNCHANGED <<jvars, tvars, gvars, hvars, mvars, rvars, dvars>>

\* Time passes between two readings of the clock.
Tick ==
  /\ clock < MaxClock
  /\ clock' = clock + 1
  /\ object' = [object EXCEPT !.op = "none", !.arg = NULL]
  /\ UNCHANGED <<jvars, tvars, gvars, hvars, mvars, rvars, dvars>>

ObjectInit == object = NoObject /\ clock = 1

\* JourneyStore.load_journey_definitions (JourneyEngine.initialize): every
\* enabled journey goes to L1; with the key/value service failing nothing is
\* stored.
LoadJourneyDefinitions ==
  \E kvOk \in BOOLEAN :
    /\ l1' = IF kvOk THEN EnabledIds ELSE l1
    /\ last' = [NoObs EXCEPT !.op = "load_journey_definitions"]
    /\ UNCHANGED <<db, l2>> /\ UNCHANGED <<tvars, gvars, hvars, ovars, mvars, rvars, dvars>>

\* The 300 s TTL of an L2 entry runs out (RedisClient.cache_l2).
ExpireL2 ==
  \E k \in DOMAIN l2 :
    /\ l2[k].present
    /\ l2' = [l2 EXCEPT ![k] = NoResult]
    /\ last' = [NoObs EXCEPT !.op = "expire_l2"]
    /\ UNCHANGED <<db, l1>> /\ UNCHANGED <<tvars, gvars, hvars, ovars, mvars, rvars, dvars>>

\* L2 without entries.
EmptyL2 == [k \in Sessions \X Utterances |-> NoResult]

JourneyInit ==
  /\ db = << >>
  /\ l1 = {}
  /\ l2 = [k \in Sessions \X Utterances |-> NoResult]
  /\ last = NoObs

(******************************* tool executor ******************************)
\* verify_customer_identity: rate_limit {max_calls: 3, window: 3600,
\* identifier_field: "phone"}, cache_ttl None.
max_calls == 3

\* ToolRegistry: verify_customer_identity and get_customer_info as registered;
\* check_policy_coverage is a registration with both a rate limit and a result
\* cache, which ToolRegistry.register accepts (cache_ttl 0 stands for None);
\* quick_quote is a registration with cache_ttl=600.
Tools ==
  [verify_customer_identity |-> [cache_ttl |-> 0, rate_limit |-> TRUE],
   get_customer_info |-> [cache_ttl |-> 1800, rate_limit |-> FALSE],
   check_policy_coverage |-> [cache_ttl |-> 1800, rate_limit |-> TRUE],
   quick_quote |-> [cache_ttl |-> 600, rate_limit |-> FALSE]]

ToolNames == DOMAIN Tools
\* A name the registry does not hold.
UnknownTool == "no_such_tool"

NumCallers == 2      \* tasks that call ToolExecutor.execute
Callers == 1..NumCallers
Identifiers == {"+1-555-0101"}

\* _compute_rate_limit_key: one counter per rate-limited tool and identifier.
RateLimitKey(tool, identifier) == <<tool, identifier>>
RateLimitKeys == {name \in ToolNames : Tools[name].rate_limit} \X Identifiers

\* A key of the key/value service: absent, or a count with or without expiry.
Absent == [present |-> FALSE, count |-> 0, ttl |-> FALSE]

\* RedisClient.get followed by "int(current_count_str) if current_count_str else 0"
ReadCount(entry) == IF entry.present THEN entry.count ELSE 0

\* The limit check off by one.
LimitReachedOffByOne(current_count) == current_count > max_calls

\* _check_rate_limit, "if current_count >= max_calls: raise RateLimitExceededError"
LimitReached(current_count) == current_count >= max_calls

\* _check_rate_limit, "Increment counter": SETEX key window "1" when the count
\* read was 0, INCR otherwise.  INCR of a key that is gone creates it with
\* value 1 and no expiry.
WriteCount(entry, current_count) ==
  IF current_count = 0
  THEN [present |-> TRUE, count |-> 1, ttl |-> TRUE]
  ELSE IF entry.present
  THEN [entry EXCEPT !.count = @ + 1]
  ELSE [present |-> TRUE, count |-> 1, ttl |-> FALSE]

\* The values the tools return, json.dumps of them and json.loads of the text.
None == "None"
ToolResults == {"customer_record", "empty_list"}
JsonDumps(value) ==
  CASE value = "customer_record" -> "{\"customer_id\": \"c-1\", \"name\": \"Ann\"}"
    [] value = "empty_list" -> "[]"
    [] OTHER -> "null"
JsonLoads(text) ==
  CASE text = "{\"customer_id\": \"c-1\", \"name\": \"Ann\"}" -> "customer_record"
    [] text = "[]" -> "empty_list"
    [] OTHER -> None

\* RedisClient.cache_l3: set_json(..., ttl=1800).
l3_ttl == 1800

\* An L3 slot: the JSON text stored under l3:tool:result:{tool}:{hash} and
\* the seconds the key has left, or no key.  produced is bookkeeping: the
\* result of the callable run that stored the text.
NoEntry == [present |-> FALSE, text |-> "", produced |-> None, ttl |-> 0]

\* get_json with a cached result used only when it is truthy.
GetJsonTruthy(entry) ==
  IF entry.present /\ entry.text # "" /\ JsonLoads(entry.text) # "empty_list"
  THEN JsonLoads(entry.text) ELSE None

\* RedisClient.get_json: json.loads of the value when there is a non-empty one.
GetJson(entry) ==
  IF entry.present /\ entry.text # "" THEN JsonLoads(entry.text) ELSE None

\* RedisClient.set_json via cache_l3
SetJson(value) ==
  [present |-> TRUE, text |-> JsonDumps(value), produced |-> value, ttl |-> l3_ttl]

\* The key/value operation of the rate-limit step that fails in a call.
KVFaults == {"none", "get", "set", "incr"}

\* A call's locals.  prior, counted and trace are bookkeeping: the calls
\* admitted before this one in the window, whether this call was admitted in
\* the window still running, and the steps of execute the call has taken.
NoLocal ==
  [tool |-> NULL, identifier |-> NULL, kv_fault |-> "none", current_count |-> 0,
   prior |-> 0, counted |-> FALSE, outcome |-> "none", result |-> None,
   trace |-> << >>]

\* execute with the result cache probed before the rate limit.
AfterLookupProbeFirst(tool, identifier) ==
  IF Tools[tool].cache_ttl > 0 THEN "probe"
  ELSE IF Tools[tool].rate_limit /\ identifier # NULL THEN "get"
  ELSE "invoke"

\* execute after the tool was found: the rate limit when the tool has one and
\* the arguments hold the identifier, then "if tool_def.cache_ttl" the cache
\* probe, else the callable.
AfterLookup(tool, identifier) ==
  IF Tools[tool].rate_limit /\ identifier # NULL THEN "get"
  ELSE IF Tools[tool].cache_ttl > 0 THEN "probe"
  ELSE "invoke"

\* execute after _check_rate_limit returned.
AfterRateLimit(tool) == IF Tools[tool].cache_ttl > 0 THEN "probe" ELSE "invoke"

\* execute(tool_name, arguments, context) starts with the registry lookup; an
\* unknown tool raises ToolExecutionError at once.
BeginOf(p, sequential, names, faults) ==
  /\ pc[p] = "idle"
  /\ sequential => \A q \in Callers : pc[q] = "idle"
  /\ \E tool \in names, id \in Identifiers \cup {NULL}, f \in faults :
       IF tool \notin ToolNames
       THEN /\ id = NULL /\ f = "none"
            /\ local' = [local EXCEPT ![p] =
                           [NoLocal EXCEPT !.tool = tool, !.outcome = "not_found",
                                           !.trace = <<"lookup">>]]
            /\ pc' = pc
       ELSE /\ f # "none" => (Tools[tool].rate_limit /\ id # NULL)
            /\ local' = [local EXCEPT ![p] =
                           [NoLocal EXCEPT !.tool = tool, !.identifier = id,
                                           !.kv_fault = f, !.trace = <<"lookup">>]]
            /\ pc' = [pc EXCEPT ![p] = AfterLookup(tool, id)]
  /\ UNCHANGED <<kv, window, l3>> /\ UNCHANGED <<jvars, gvars, hvars, ovars, mvars, rvars, dvars>>

\* A call of verify_customer_identity with the key/value service healthy.
Begin(p, sequential) ==
  BeginOf(p, sequential, {"verify_customer_identity"}, {"none"})

\* _check_rate_limit: the GET is answered (a failed GET reads as no count)
\* and the limit is checked.  prior is the number of calls admitted before
\* this one since the key last expired.
GetCount(p) ==
  /\ pc[p] = "get"
  /\ LET id == RateLimitKey(local[p].tool, local[p].identifier)
         n == IF local[p].kv_fault = "get" THEN 0 ELSE ReadCount(kv[id])
     IN /\ local' = [local EXCEPT ![p].current_count = n,
                                  ![p].prior = window[id].admitted,
                                  ![p].trace = Append(@, "rate_check")]
        /\ pc' = [pc EXCEPT ![p] = IF LimitReached(n) THEN "rate_limited" ELSE "write"]
  /\ UNCHANGED <<kv, window, l3>> /\ UNCHANGED <<jvars, gvars, hvars, ovars, mvars, rvars, dvars>>

\* The calls counted as admitted in one window: more than racing callers
\* reach with a healthy key/value service (a failing GET or SETEX admits
\* without end).
MaxAdmitted == 2 * max_calls + NumCallers

\* _check_rate_limit: the SETEX or INCR reaches the key/value service.  A
\* failed SETEX returns False from RedisClient.set; the INCR goes to the
\* client itself and its error leaves _check_rate_limit and execute.
PutCount(p) ==
  /\ pc[p] = "write"
  /\ window[RateLimitKey(local[p].tool, local[p].identifier)].admitted < MaxAdmitted
  /\ LET id == RateLimitKey(local[p].tool, local[p].identifier)
         setFails == local[p].current_count = 0 /\ local[p].kv_fault = "set"
         incrFails == local[p].current_count # 0 /\ local[p].kv_fault = "incr"
     IN IF incrFails
        THEN /\ pc' = [pc EXCEPT ![p] = "idle"]
             /\ local' = [local EXCEPT ![p].outcome = "kv_error",
                                       ![p].trace = Append(@, "rate_incr")]
             /\ UNCHANGED <<kv, window>>
        ELSE /\ kv' = IF setFails THEN kv
                      ELSE [kv EXCEPT ![id] = WriteCount(@, local[p].current_count)]
             /\ window' = [window EXCEPT ![id].admitted = @ + 1]
             /\ pc' = [pc EXCEPT ![p] = AfterRateLimit(local[p].tool)]
             /\ local' = [local EXCEPT ![p].counted = TRUE,
                                       ![p].trace = Append(@, "rate_incr")]
  /\ UNCHANGED l3 /\ UNCHANGED <<jvars, gvars, hvars, ovars, mvars, rvars, dvars>>

\* execute, "Check cache": get_l3 of the key of (tool, arguments); a result
\* that is not None is returned at once.
Probe(p) ==
  /\ pc[p] = "probe"
  /\ LET cached_result == GetJson(l3[<<local[p].tool, local[p].identifier>>])
     IN IF cached_result # None
        THEN /\ pc' = [pc EXCEPT ![p] = "idle"]
             /\ local' = [local EXCEPT ![p].outcome = "cache_hit",
                                       ![p].result = cached_result,
                                       ![p].trace = Append(@, "probe")]
        ELSE /\ pc' = [pc EXCEPT ![p] = "invoke"]
             /\ local' = [local EXCEPT ![p].trace = Append(@, "probe")]
  /\ UNCHANGED <<kv, window, l3>> /\ UNCHANGED <<jvars, gvars, hvars, ovars, mvars, rvars, dvars>>

\* execute: the callable runs under the deadline; its result is cached when
\* the tool has a cache_ttl, and returned.  A callable that raises or runs
\* out of time gives ToolExecutionError.
Invoke(p) ==
  /\ pc[p] = "invoke"
  /\ window' = IF local[p].counted
               THEN [window EXCEPT
                       ![RateLimitKey(local[p].tool, local[p].identifier)].invoked = @ + 1]
               ELSE window
  /\ pc' = [pc EXCEPT ![p] = "idle"]
  /\ LET key == <<local[p].tool, local[p].identifier>>
         cached == Tools[local[p].tool].cache_ttl > 0
     IN \E result \in IF cached THEN ToolResults \cup {None} ELSE {"customer_record"} :
          IF result = None
          THEN /\ local' = [local EXCEPT ![p].outcome = "error",
                                         ![p].trace = Append(@, "run")]
               /\ UNCHANGED l3
          ELSE /\ local' = [local EXCEPT
                              ![p].outcome = "success", ![p].result = result,
                              ![p].trace = IF cached THEN @ \o <<"run", "store">>
                                           ELSE Append(@, "run")]
               /\ l3' = IF cached THEN [l3 EXCEPT ![key] = SetJson(result)] ELSE l3
  /\ UNCHANGED kv /\ UNCHANGED <<jvars, gvars, hvars, ovars, mvars, rvars, dvars>>

\* execute: RateLimitExceededError reaches the caller.
Rejected(p) ==
  /\ pc[p] = "rate_limited"
  /\ pc' = [pc EXCEPT ![p] = "idle"]
  /\ local' = [local EXCEPT ![p].outcome = "rate_limited"]
  /\ UNCHANGED <<kv, window, l3>> /\ UNCHANGED <<jvars, gvars, hvars, ovars, mvars, rvars, dvars>>

\* The window of a counter key runs out: the key/value service drops the key.
Expire ==
  \E id \in RateLimitKeys :
    /\ kv[id].present /\ kv[id].ttl
    /\ kv' = [kv EXCEPT ![id] = Absent]
    /\ window' = [window EXCEPT ![id] = [admitted |-> 0, invoked |-> 0]]
    /\ local' = [p \in Callers |->
                   IF <<local[p].tool, local[p].identifier>> = id
                   THEN [local[p] EXCEPT !.counted = FALSE] ELSE local[p]]
    /\ UNCHANGED <<pc, l3>> /\ UNCHANGED <<jvars, gvars, hvars, ovars, mvars, rvars, dvars>>

\* The TTL of an L3 entry runs out (RedisClient.cache_l3).
ExpireL3 ==
  \E key \in DOMAIN l3 :
    /\ l3[key].present
    /\ l3' = [l3 EXCEPT ![key] = NoEntry]
    /\ UNCHANGED <<kv, pc, local, window>> /\ UNCHANGED <<jvars, gvars, hvars, ovars, mvars, rvars, dvars>>

\* Time passes: every L3 key has that many seconds less to live, and the
\* key/value service drops the keys that have none left.
Durations == {600, 1200}
Elapse ==
  \E d \in Durations :
    /\ \E key \in DOMAIN l3 : l3[key].present
    /\ l3' = [key \in DOMAIN l3 |->
               IF l3[key].present /\ l3[key].ttl > d
               THEN [l3[key] EXCEPT !.ttl = @ - d] ELSE NoEntry]
    /\ UNCHANGED <<kv, pc, local, window>> /\ UNCHANGED <<jvars, gvars, hvars, ovars, mvars, rvars, dvars>>

CacheKeys == {name \in ToolNames : Tools[name].cache_ttl > 0} \X (Identifiers \cup {NULL})

ToolInit ==
  /\ kv = [id \in RateLimitKeys |-> Absent]
  /\ pc = [p \in Callers |-> "idle"]
  /\ local = [p \in Callers |-> NoLocal]
  /\ window = [id \in RateLimitKeys |-> [admitted |-> 0, invoked |-> 0]]
  /\ l3 = [key \in CacheKeys |-> NoEntry]

(******************************** guidelines ********************************)
\* Table guidelines.  G1 applies everywhere, G3 in journey J1, G2 in state
\* provide_status of J1 (no exact dollar amounts in the reply); G4 and G5 are
\* two rows of journey J3 with the same scope and the same priority.
Guidelines ==
  [G1 |-> [id |-> "G1", scope |-> "GLOBAL", journey_id |-> NULL,
           state_name |-> NULL, name |-> "no_legal_advice",
           keywords |-> {"lawyer"}, priority |-> 5, enabled |-> TRUE],
   G2 |-> [id |-> "G2", scope |-> "STATE", journey_id |-> "J1",
           state_name |-> "provide_status", name |-> "no_exact_amounts",
           keywords |-> {"amount"}, priority |-> 0, enabled |-> TRUE],
   G3 |-> [id |-> "G3", scope |-> "JOURNEY", journey_id |-> "J1",
           state_name |-> NULL, name |-> "confirm_identity_first",
           keywords |-> {"claim"}, priority |-> 0, enabled |-> TRUE],
   G4 |-> [id |-> "G4", scope |-> "JOURNEY", journey_id |-> "J3",
           state_name |-> NULL, name |-> "retired_notice",
           keywords |-> {"claim"}, priority |-> 0, enabled |-> TRUE],
   G5 |-> [id |-> "G5", scope |-> "JOURNEY", journey_id |-> "J3",
           state_name |-> NULL, name |-> "offer_callback",
           keywords |-> {"claim"}, priority |-> 0, enabled |-> TRUE]]

GuidelineIds == DOMAIN Guidelines

\* The rows in the order of "ORDER BY priority DESC, name".
ByPriorityAndName == <<"G1", "G3", "G2", "G5", "G4">>

\* GuidelineStore.get_guidelines_by_scope: the enabled rows that are GLOBAL,
\* JOURNEY of this journey, or STATE of this journey and state.
GetGuidelinesByScope(journey_id, state_name) ==
  SelectSeq(ByPriorityAndName,
            LAMBDA g :
              /\ Guidelines[g].enabled
              /\ \/ Guidelines[g].scope = "GLOBAL"
                 \/ Guidelines[g].scope = "JOURNEY"
                      /\ Guidelines[g].journey_id = journey_id
                 \/ Guidelines[g].scope = "STATE"
                      /\ Guidelines[g].journey_id = journey_id
                      /\ Guidelines[g].state_name = state_name)

(***************************** guideline matcher ****************************)
\* The words of an utterance, as re.findall(r'\b\w+\b', ...) splits it.
Words(u) ==
  CASE u = "u1" -> <<"What", "is", "the", "amount", "of", "my", "claim">>
    [] OTHER -> << >>

\* str.lower on the words in use.
Lower(w) == CASE w = "What" -> "what" [] OTHER -> w

\* len(w) of the lower-case words in use.
WordLen(w) ==
  CASE w \in {"is", "of", "my"} -> 2
    [] w = "the" -> 3
    [] w = "what" -> 4
    [] w = "claim" -> 5
    [] w \in {"amount", "lawyer"} -> 6
    [] OTHER -> 0

stopwords ==
  {"the", "a", "an", "and", "or", "but", "is", "are", "was", "were",
   "be", "been", "being", "have", "has", "had", "do", "does", "did",
   "will", "would", "should", "could", "may", "might", "can", "i",
   "you", "he", "she", "it", "we", "they", "my", "your", "his", "her",
   "its", "our", "their", "this", "that", "these", "those"}

min_length == 3

\* GuidelineMatcher.extract_keywords
extract_keywords(message) ==
  LET words == [i \in 1..Len(Words(message)) |-> Lower(Words(message)[i])]
  IN SelectSeq(words, LAMBDA w : WordLen(w) >= min_length /\ w \notin stopwords)

\* GuidelineStore._keyword_index as load_guideline_definitions builds it from
\* the enabled rows: keyword -> guideline ids.
KeywordIndex(keyword) ==
  {g \in GuidelineIds : Guidelines[g].enabled /\ keyword \in Guidelines[g].keywords}

\* GuidelineStore.get_candidates_by_keywords
get_candidates_by_keywords(message_keywords) ==
  UNION {KeywordIndex(message_keywords[i]) : i \in 1..Len(message_keywords)}

\* Guideline.matches_scope, of a Guideline object.
matches_scope_of(self, journey_id, state_name) ==
  CASE self.scope = "GLOBAL" -> TRUE
    [] self.scope = "JOURNEY" -> self.journey_id = journey_id
    [] self.scope = "STATE" ->
         self.journey_id = journey_id /\ self.state_name = state_name
    [] OTHER -> FALSE

\* The score without the scope's base: the numeric priority alone.
get_priority_score_flat(self, journey_id, state_name) ==
  IF ~matches_scope_of(self, journey_id, state_name) THEN 0 ELSE self.priority

\* Guideline.get_priority_score, of a Guideline object.
get_priority_score_of(self, journey_id, state_name) ==
  IF ~matches_scope_of(self, journey_id, state_name) THEN 0
  ELSE (CASE self.scope = "STATE" -> 3000
          [] self.scope = "JOURNEY" -> 2000
          [] OTHER -> 1000) + self.priority

\* Guideline.matches_scope, of the row with id g.
matches_scope(g, journey_id, state_name) ==
  matches_scope_of(Guidelines[g], journey_id, state_name)

\* Guideline.get_priority_score, of the row with id g.
get_priority_score(g, journey_id, state_name) ==
  get_priority_score_of(Guidelines[g], journey_id, state_name)

\* Stage 1 of match_guidelines: the ids handed to get_guidelines_by_ids.
RelevantIds(user_message, journey_id, state_name) ==
  LET candidate_ids == get_candidates_by_keywords(extract_keywords(user_message))
      scope_guidelines == GetGuidelinesByScope(journey_id, state_name)
      scope_guideline_ids == {scope_guidelines[i] : i \in 1..Len(scope_guidelines)}
      relevant_ids == candidate_ids \cap scope_guideline_ids
  IN IF relevant_ids = {} /\ scope_guidelines # << >>
     THEN {scope_guidelines[i] : i \in 1..Len(scope_guidelines) \cap 1..20}
     ELSE relevant_ids

\* GuidelineStore.get_guidelines_by_ids: the ids that name an enabled row.
GetGuidelinesByIds(guideline_ids) ==
  {g \in guideline_ids \cap GuidelineIds : Guidelines[g].enabled}

\* One verdict of the stage-2 model answer (confidence in tenths).
Verdict(g, applies, confidence) ==
  [guideline_id |-> g, applies |-> applies, confidence |-> confidence]

\* The stage-2 model's answers over the candidates: a failed call, every
\* choice of applying candidates in table order, and one verdict below the
\* confidence floor.
NoMatches == [failed |-> TRUE, matches |-> << >>]
MatchAnswers(candidates) ==
  {NoMatches}
  \cup {[failed |-> FALSE,
         matches |-> [i \in 1..Len(SelectSeq(ByPriorityAndName, LAMBDA g : g \in S)) |->
                        Verdict(SelectSeq(ByPriorityAndName, LAMBDA g : g \in S)[i],
                                TRUE, 9)]] :
          S \in SUBSET candidates}
  \cup {[failed |-> FALSE, matches |-> <<Verdict(g, TRUE, 5)>>] : g \in candidates}

\* _batch_evaluate_guidelines, the loop over result["matches"]: the verdicts
\* kept so far, or a raised exception (an id that is no UUID, a confidence
\* outside 0..1).
RECURSIVE KeptMatches(_, _)
KeptMatches(matches, candidates) ==
  IF matches = << >> THEN [raised |-> FALSE, kept |-> << >>]
  ELSE LET match_data == Head(matches)
           rest == KeptMatches(Tail(matches), candidates)
       IN IF ~match_data.applies THEN rest
          ELSE IF match_data.guideline_id = MalformedId
          THEN [raised |-> TRUE, kept |-> << >>]
          ELSE IF match_data.guideline_id \in candidates /\ match_data.confidence >= 6
          THEN IF match_data.confidence > 10
               THEN [raised |-> TRUE, kept |-> << >>]
               ELSE [rest EXCEPT !.kept = <<match_data>> \o @]
          ELSE rest

\* GuidelineMatcher._batch_evaluate_guidelines: [] on any exception.
BatchEvaluateGuidelines(candidates, ans) ==
  IF ans.failed THEN << >>
  ELSE LET k == KeptMatches(ans.matches, candidates)
       IN IF k.raised THEN << >> ELSE k.kept

\* list.sort(key = priority score, reverse = True): stable, equal scores keep
\* their order.
RECURSIVE SortByScore(_, _, _)
SortByScore(matches, journey_id, state_name) ==
  IF matches = << >> THEN << >>
  ELSE LET score(m) == get_priority_score(m.guideline_id, journey_id, state_name)
           best == CHOOSE i \in 1..Len(matches) :
                     /\ \A k \in 1..Len(matches) : score(matches[k]) <= score(matches[i])
                     /\ \A k \in 1..(i - 1) : score(matches[k]) < score(matches[i])
       IN <<matches[best]>>
          \o SortByScore([k \in 1..(Len(matches) - 1) |->
                            IF k < best THEN matches[k] ELSE matches[k + 1]],
                         journey_id, state_name)

\* match_guidelines without the sort: the matches in the model's order.
MatchGuidelinesUnsorted(user_message, journey_id, state_name, ans) ==
  LET candidates == GetGuidelinesByIds(RelevantIds(user_message, journey_id, state_name))
  IN IF candidates = {} THEN << >>
     ELSE BatchEvaluateGuidelines(candidates, ans)

\* GuidelineMatcher.match_guidelines: the matches, highest score first.
MatchGuidelines(user_message, journey_id, state_name, ans) ==
  LET candidates == GetGuidelinesByIds(RelevantIds(user_message, journey_id, state_name))
  IN IF candidates = {} THEN << >>
     ELSE SortByScore(BatchEvaluateGuidelines(candidates, ans), journey_id, state_name)

(******************** match_guidelines, called on its own *******************)
MaxVerdicts == 2     \* verdicts in one stage-2 answer

\* The verdicts an untrusted model can return: any row's id, a well-formed id
\* of no row, a string that is no UUID; confidences below the floor, on it,
\* above it and above 1.0 (tenths).
VerdictIds == GuidelineIds \cup {UnknownId, MalformedId}
Verdicts ==
  {Verdict(g, TRUE, c) : g \in VerdictIds, c \in {5, 6, 9, 12}}
  \cup {Verdict(g, FALSE, 9) : g \in VerdictIds}

\* The stage-2 model call: a failure, or result["matches"] in the order the
\* model wrote it.
Stage2Answers ==
  {NoMatches}
  \cup {[failed |-> FALSE, matches |-> m] :
          m \in UNION {[1..n -> Verdicts] : n \in 0..MaxVerdicts}}

NoCall ==
  [op |-> "none", user_message |-> NULL, journey_id |-> NULL, state_name |-> NULL,
   candidates |-> {}, answer |-> NoMatches, kept |-> << >>, returned |-> << >>]

\* GuidelineMatcher.match_guidelines called with a message, a journey and a
\* state; kept is what _batch_evaluate_guidelines handed back, returned the
\* list after the sort.
MatchGuidelinesOf(U) ==
  /\ mlast = NoCall
  /\ \E u \in U, journey_id \in {NULL} \cup JourneyIds,
        state_name \in {NULL, "provide_status"}, ans \in Stage2Answers :
       LET candidates == GetGuidelinesByIds(RelevantIds(u, journey_id, state_name))
       IN mlast' = [op |-> "match_guidelines", user_message |-> u,
                    journey_id |-> journey_id, state_name |-> state_name,
                    candidates |-> candidates, answer |-> ans,
                    kept |-> IF candidates = {} THEN << >>
                             ELSE BatchEvaluateGuidelines(candidates, ans),
                    returned |-> MatchGuidelines(u, journey_id, state_name, ans)]
  /\ UNCHANGED <<jvars, tvars, gvars, hvars, ovars, rvars, dvars>>

MatchGuidelinesCall == MatchGuidelinesOf(Utterances)

\* The empty message: re.findall finds no word in it.
EmptyUtterance == ""

\* match_guidelines called with the empty message.
MatchGuidelinesEmpty == MatchGuidelinesOf({EmptyUtterance})

\* The caller is done with the list.
MatchGuidelinesDone ==
  /\ mlast # NoCall
  /\ mlast' = NoCall
  /\ UNCHANGED <<jvars, tvars, gvars, hvars, ovars, rvars, dvars>>

MatcherInit == mlast = NoCall

(****************************** Guideline objects ***************************)
Scopes == {"GLOBAL", "JOURNEY", "STATE"}
\* Column priority is an INTEGER with no range check.
Priorities == {0 - 1000, 0, 50, 1000}

\* A key that the YAML mapping does not have.
AbsentKey == "<absent>"

\* The Guideline fields that scope and score depend on (name, condition and
\* action are non-empty throughout).
GuidelineObject(scope, journey_id, state_name, priority) ==
  [scope |-> scope, journey_id |-> journey_id, state_name |-> state_name,
   priority |-> priority]

NoGuideline == GuidelineObject("none", NULL, NULL, 0)

\* Guideline.__post_init__ raises ValueError.
PostInitRaises(self) ==
  \/ self.scope = "JOURNEY" /\ self.journey_id = NULL
  \/ self.scope = "STATE" /\ (self.journey_id = NULL \/ self.state_name = NULL)

\* The Guideline objects that can be constructed.
GuidelineObjects ==
  {g \in {GuidelineObject(sc, j, st, p) :
            sc \in Scopes, j \in {NULL} \cup JourneyIds,
            st \in {NULL, "provide_status"}, p \in Priorities} :
     ~PostInitRaises(g)}

\* One entry of a guidelines YAML file: journey_name and state_name may be
\* missing, null or set.
GuidelineData ==
  [scope : Scopes \cup {"OTHER"},
   journey_name : {AbsentKey, NULL, "claim_inquiry", "no_such_journey"},
   state_name : {AbsentKey, NULL, "provide_status"},
   priority : Priorities]

\* journey_id_map: journey name -> id, of the rows of table journeys.
JourneyIdMapHas(journey_name) == \E j \in JourneyIds : Journeys[j].name = journey_name
JourneyIdMap(journey_name) == CHOOSE j \in JourneyIds : Journeys[j].name = journey_name

\* GuidelineLoader.validate_guideline_schema raises GuidelineValidationError.
ValidateGuidelineSchemaRaises(data) ==
  \/ data.scope \notin Scopes
  \/ data.scope = "JOURNEY" /\ data.journey_name = AbsentKey
  \/ data.scope = "STATE"
       /\ (data.journey_name = AbsentKey \/ data.state_name = AbsentKey)

\* dict.get: None for a missing key.
DataGet(value) == IF value = AbsentKey THEN NULL ELSE value

\* GuidelineLoader.parse_guideline of validated data: the object, or raised
\* when the journey name is not in the map or __post_init__ rejects it.
ParseGuidelineOf(data) ==
  LET needs == data.scope \in {"JOURNEY", "STATE"}
      unknown == needs /\ ~JourneyIdMapHas(DataGet(data.journey_name))
      built == GuidelineObject(data.scope,
                               IF needs /\ ~unknown
                               THEN JourneyIdMap(DataGet(data.journey_name)) ELSE NULL,
                               DataGet(data.state_name), data.priority)
  IN IF unknown \/ PostInitRaises(built)
     THEN [raised |-> TRUE, guideline |-> NoGuideline]
     ELSE [raised |-> FALSE, guideline |-> built]

NoGObs ==
  [op |-> "none", data |-> [scope |-> "none", journey_name |-> AbsentKey,
                            state_name |-> AbsentKey, priority |-> 0],
   raised |-> FALSE, guideline |-> NoGuideline, other |-> NoGuideline,
   journey_id |-> NULL, state_name |-> NULL, score |-> 0, other_score |-> 0]

\* load_guidelines_from_file on one entry: validate_guideline_schema, then
\* parse_guideline.
ParseGuideline ==
  /\ glast = NoGObs
  /\ \E data \in GuidelineData :
       LET r == IF ValidateGuidelineSchemaRaises(data)
                THEN [raised |-> TRUE, guideline |-> NoGuideline]
                ELSE ParseGuidelineOf(data)
       IN glast' = [NoGObs EXCEPT !.op = "parse_guideline", !.data = data,
                                  !.raised = r.raised, !.guideline = r.guideline]
  /\ UNCHANGED <<jvars, tvars, gvars, hvars, ovars, mvars, dvars>>

\* GuidelineStore.load_guideline_definitions on the row that to_db_format
\* wrote for the parsed guideline: Guideline(...) from the row's columns.
LoadGuidelineRow ==
  /\ glast.op = "parse_guideline" /\ ~glast.raised
  /\ LET row == glast.guideline
         built == GuidelineObject(row.scope, row.journey_id, row.state_name,
                                  row.priority)
     IN glast' = [glast EXCEPT !.op = "load_guideline_definitions",
                               !.raised = PostInitRaises(built),
                               !.guideline = IF PostInitRaises(built)
                                             THEN NoGuideline ELSE built]
  /\ UNCHANGED <<jvars, tvars, gvars, hvars, ovars, mvars, dvars>>

\* get_priority_score of two Guideline objects for the same journey and state.
GetPriorityScores ==
  /\ glast = NoGObs
  /\ \E a \in GuidelineObjects, b \in GuidelineObjects,
        journey_id \in {NULL} \cup JourneyIds,
        state_name \in {NULL, "provide_status", "closing"} :
       glast' = [NoGObs EXCEPT
                   !.op = "get_priority_score",
                   !.guideline = a, !.other = b,
                   !.journey_id = journey_id, !.state_name = state_name,
                   !.score = get_priority_score_of(a, journey_id, state_name),
                   !.other_score = get_priority_score_of(b, journey_id, state_name)]
  /\ UNCHANGED <<jvars, tvars, gvars, hvars, ovars, mvars, dvars>>

\* The objects are dropped.
GuidelineDone ==
  /\ glast # NoGObs
  /\ glast' = NoGObs
  /\ UNCHANGED <<jvars, tvars, gvars, hvars, ovars, mvars, dvars>>

GuidelineInit == glast = NoGObs

(******************************* journey loader *****************************)
MaxFiles == 3        \* YAML files in the directory

\* The content of one journey file: its name ("" for a blank one) and its
\* initial_state; states holds verify_identity only, everything else is valid.
JourneyFiles ==
  [name : {"", "claim_inquiry", "retired_flow", "billing_dispute"},
   initial_state : {"verify_identity", "no_such_state"}]

\* JourneyLoader.validate_journey_schema raises JourneyValidationError.
ValidateJourneySchemaRaises(data) ==
  \/ data.name = ""
  \/ data.initial_state # "verify_identity"

\* load_journeys_from_directory, the loop over the sorted files: the journeys
\* appended so far, or the first file's JourneyValidationError re-raised.
RECURSIVE LoadJourneys(_)
LoadJourneys(files) ==
  IF files = << >> THEN [raised |-> FALSE, journeys |-> << >>]
  ELSE IF ValidateJourneySchemaRaises(Head(files))
  THEN [raised |-> TRUE, journeys |-> << >>]
  ELSE LET rest == LoadJourneys(Tail(files))
       IN IF rest.raised THEN rest
          ELSE [rest EXCEPT !.journeys = <<Head(files)>> \o @]

NoLoad == [op |-> "none", files |-> << >>, raised |-> FALSE, journeys |-> << >>]

\* JourneyLoader.load_journeys_from_directory
LoadJourneysFromDirectory ==
  /\ dlast = NoLoad
  /\ \E files \in UNION {[1..n -> JourneyFiles] : n \in 0..MaxFiles} :
       dlast' = [op |-> "load_journeys_from_directory", files |-> files,
                 raised |-> LoadJourneys(files).raised,
                 journeys |-> LoadJourneys(files).journeys]
  /\ UNCHANGED <<jvars, tvars, gvars, hvars, ovars, mvars, rvars>>

\* The caller is done with the list.
LoadDone ==
  /\ dlast # NoLoad
  /\ dlast' = NoLoad
  /\ UNCHANGED <<jvars, tvars, gvars, hvars, ovars, mvars, rvars>>

LoaderInit == dlast = NoLoad

(***************************** response validator ***************************)
MaxAudit == 1        \* rows of validation_audit

\* ValidationResult (confidence in tenths; fixed_response NULL for None).
ValidationResult(is_valid, violations, confidence, suggested_fixes) ==
  [is_valid |-> is_valid, violations |-> violations, confidence |-> confidence,
   suggested_fixes |-> suggested_fixes, fixed_response |-> NULL]

\* The validator model's answer, as validate_response reads it; failed = TRUE
\* is a model call that raised or whose content is no JSON object.
NoVerdict ==
  [failed |-> TRUE, is_valid |-> TRUE, violations |-> << >>, confidence |-> 0,
   suggested_fixes |-> << >>]
ValidationAnswers ==
  { NoVerdict,
    [failed |-> FALSE, is_valid |-> TRUE, violations |-> << >>, confidence |-> 9,
     suggested_fixes |-> << >>],
    [failed |-> FALSE, is_valid |-> TRUE, violations |-> << >>, confidence |-> 7,
     suggested_fixes |-> <<"mention the claim number">>],
    [failed |-> FALSE, is_valid |-> FALSE, violations |-> <<"G2">>, confidence |-> 9,
     suggested_fixes |-> <<"omit the specific amount">>],
    [failed |-> FALSE, is_valid |-> FALSE, violations |-> <<"G2">>, confidence |-> 8,
     suggested_fixes |-> << >>] }

\* The correction model's answer: its trimmed content, or NULL when the call
\* failed.  The trimmed content can be the empty string.
FixAnswers == {NULL, "", "Your claim is approved."}

Replies == {"Your claim for $8,500 is approved."}

\* The auto-fix condition without its suggested_fixes part.
AutoFixWantedAlways(validation_result) == ~validation_result.is_valid

\* validate_response, "if not validation_result.is_valid and
\* validation_result.suggested_fixes"
AutoFixWanted(validation_result) ==
  ~validation_result.is_valid /\ validation_result.suggested_fixes # << >>

\* ResponseValidator._attempt_auto_fix: the fixed text, None on any failure.
AttemptAutoFix(fix) == fix

\* The verdict on a failed call, blocking the reply.
FailedVerdictBlocking == ValidationResult(FALSE, << >>, 0, << >>)

\* validate_response, "except Exception": assume valid.
FailedVerdict == ValidationResult(TRUE, << >>, 0, << >>)

\* validate_response, "if not guidelines"
EmptyVerdict == ValidationResult(TRUE, << >>, 10, << >>)

NoRecord == [id |-> 0]

\* ResponseValidator._log_validation: the row inserted into validation_audit.
AuditRecord(n, session_id, journey_id, guidelines, response, result) ==
  [id |-> n, session_id |-> session_id, journey_id |-> journey_id,
   guideline_ids |-> guidelines, is_valid |-> result.is_valid,
   violations |-> result.violations, suggested_fixes |-> result.suggested_fixes,
   confidence |-> result.confidence, original_response |-> response,
   fixed_response |-> result.fixed_response]

\* ResponseValidator.validate_response.  ans and fix are the answers of the
\* validation and the correction model, auditFails a failing INSERT.  Result:
\* the returned verdict, the model calls issued, the audit table.
ValidateResponse(a, response, guidelines, session_id, journey_id, ans, fix, auditFails) ==
  LET none == [result |-> EmptyVerdict, model_calls |-> 0, fix_calls |-> 0,
               fix_failed |-> FALSE, audit |-> a, audit_attempted |-> FALSE,
               raised |-> FALSE]
  IN
  IF guidelines = << >>
  THEN none
  ELSE IF ans.failed
  THEN [none EXCEPT !.result = FailedVerdict, !.model_calls = 1]
  ELSE
    LET validation_result ==
          ValidationResult(ans.is_valid, ans.violations, ans.confidence,
                           ans.suggested_fixes)
        wanted == AutoFixWanted(validation_result)
        fixed == IF wanted
                 THEN [validation_result EXCEPT !.fixed_response = AttemptAutoFix(fix)]
                 ELSE validation_result
    IN [none EXCEPT
          !.result = fixed, !.model_calls = 1,
          !.fix_calls = IF wanted THEN 1 ELSE 0,
          !.fix_failed = wanted /\ fix = NULL,
          !.audit_attempted = TRUE,
          !.audit = IF auditFails THEN a
                    ELSE Append(a, AuditRecord(Len(a) + 1, session_id, journey_id,
                                               guidelines, response, fixed))]

\* The record kept of the most recent validate_response call.
NoVObs ==
  [op |-> "none", session |-> NULL, guidelines |-> << >>,
   answer |-> NoVerdict,             \* the validation model's answer
   model_calls |-> 0, fix_calls |-> 0,
   fix_failed |-> FALSE,             \* the correction call was issued and failed
   audit_failed |-> FALSE,           \* the INSERT was issued and failed
   raised |-> FALSE,
   result |-> EmptyVerdict]

\* The record of a validate_response call that returned r.
VObs(session_id, guidelines, ans, r, auditFails) ==
  [NoVObs EXCEPT !.op = "validate_response",
                 !.session = session_id,
                 !.guidelines = guidelines,
                 !.answer = IF guidelines = << >> THEN NoVerdict ELSE ans,
                 !.model_calls = r.model_calls,
                 !.fix_calls = r.fix_calls,
                 !.fix_failed = r.fix_failed,
                 !.audit_failed = r.audit_attempted /\ auditFails,
                 !.raised = r.raised,
                 !.result = r.result]

\* The guideline lists validate_response is called with.
GuidelineLists == {<< >>, <<"G1">>, <<"G1", "G3", "G2">>}

\* A call of validate_response.  The answers are drawn as far as the call
\* reads them.
ValidateResponseCall ==
  \E session_id \in {"s1"}, response \in Replies, guidelines \in GuidelineLists,
     ans \in ValidationAnswers :
    LET first == ValidateResponse(audit, response, guidelines, session_id, "J1",
                                  ans, NULL, FALSE)
    IN
    \E fix \in IF first.fix_calls > 0 THEN FixAnswers ELSE {NULL},
       auditFails \in IF first.audit_attempted THEN BOOLEAN ELSE {FALSE} :
      LET r == ValidateResponse(audit, response, guidelines, session_id, "J1",
                                ans, fix, auditFails)
      IN /\ Len(r.audit) <= MaxAudit
         /\ audit' = r.audit
         /\ vlast' = VObs(session_id, guidelines, ans, r, auditFails)
         /\ UNCHANGED <<jvars, tvars, frame, hvars, ovars, mvars, rvars, dvars>>

(********************************* pipeline *********************************)
\* The pipeline of session s1: JourneyProcessor -> model -> ValidatorProcessor.
\* The record of the frame last processed: the guidelines injected into the
\* prompt of the turn, the guidelines the reply was validated against, the
\* reply text forwarded.
NoFrame ==
  [op |-> "none",
   initialized |-> FALSE,            \* JourneyProcessor._initialized
   prompted |-> FALSE,               \* the turn's prompt went to the model
   raised |-> FALSE,
   inject_called |-> FALSE, injected |-> << >>,
   validate_called |-> FALSE, validated |-> << >>,
   text |-> NULL, text_out |-> NULL]

\* The model's answers in the turns of the pipeline: the utterance starts the
\* claim_inquiry journey or none; the state is kept, or left for
\* provide_status.
FrameActivationAnswers == {Result(TRUE, "J1", 9), Result(FALSE, NULL, 9)}
FrameTransitionAnswers ==
  {[failed |-> FALSE, should_transition |-> TRUE, to_state |-> "provide_status"],
   [failed |-> FALSE, should_transition |-> FALSE, to_state |-> NULL]}

\* The validator model's answers to the reply: a failed call, no violation,
\* a violation of G2 with and without a suggested fix.
FrameValidationAnswers ==
  {ans \in ValidationAnswers : ans.is_valid => ans.suggested_fixes = << >>}

Ids(matches) == [i \in 1..Len(matches) |-> matches[i].guideline_id]
Range(seq) == {seq[i] : i \in 1..Len(seq)}

\* JourneyProcessor.process_frame after process_message returned r: the
\* journey is fetched for the guidance, and guidelines are matched, when the
\* turn gave a context and a state.
Matching(r) ==
  /\ ~r.obs.raised /\ r.obs.context.id # 0 /\ r.obs.state # NULL
  /\ GetJourney(r.obs.context.journey_id, r.l1, TRUE, FALSE).journey # NULL

\* The candidates match_guidelines hands to the stage-2 model after turn r.
FrameCandidates(r, u) ==
  IF Matching(r)
  THEN GetGuidelinesByIds(RelevantIds(u, r.obs.context.journey_id,
                                      r.obs.context.current_state))
  ELSE {}

\* The matches injected into the system prompt after turn r.
Injected(r, u, mans) ==
  IF Matching(r)
  THEN Ids(MatchGuidelines(u, r.obs.context.journey_id,
                           r.obs.context.current_state, mans))
  ELSE << >>

\* JourneyProcessor.process_frame, the state it leaves after turn r.
InjectContext(r, u, mans) ==
  /\ WithinBounds(r.db, r.obs.context)
  /\ db' = r.db /\ l2' = r.l2 /\ last' = r.obs
  /\ l1' = IF Matching(r)
           THEN GetJourney(r.obs.context.journey_id, r.l1, TRUE, FALSE).l1
           ELSE r.l1
  /\ frame' = [NoFrame EXCEPT
                 !.op = "journey_frame", !.initialized = TRUE,
                 !.raised = r.obs.raised,
                 !.prompted = ~r.obs.raised,
                 !.inject_called = Matching(r),
                 !.injected = Injected(r, u, mans)]
  /\ UNCHANGED <<tvars, audit, vlast, hvars, ovars, mvars, rvars, dvars>>

\* JourneyProcessor.process_frame on an LLMMessagesFrame with user message u,
\* the services healthy: lazy initialization, process_message, then guidance
\* and match_guidelines for the returned context and state, injected into the
\* system prompt.
JourneyFrame ==
  /\ ~frame.prompted
  /\ \E s \in {"s1"}, u \in Utterances :
       LET ready == IF frame.initialized THEN l1 ELSE EnabledIds
       IN
       \E ans \in IF GetActiveContext(db, s).id # 0 THEN {NoResult}
                  ELSE FrameActivationAnswers :
         \E tr \in IF Turn(db, ready, l2, s, u, TRUE, "none", ans, NoAnswer)
                        .obs.can_transition_called
                   THEN FrameTransitionAnswers ELSE {NoAnswer} :
           LET r == Turn(db, ready, l2, s, u, TRUE, "none", ans, tr)
           IN \E mans \in IF FrameCandidates(r, u) = {} THEN {NoMatches}
                          ELSE MatchAnswers(FrameCandidates(r, u)) :
                InjectContext(r, u, mans)

\* ValidatorProcessor.process_frame on the TextFrame with the model's reply:
\* the active context, its scope's guidelines, validate_response, and the
\* frame forwarded with the fixed text when the reply is invalid and a fixed
\* response exists.
ReplyValidated(s, response_text) ==
  LET context == GetActiveContext(db, s)
      guidelines == IF context.id # 0
                    THEN GetGuidelinesByScope(context.journey_id,
                                              context.current_state)
                    ELSE << >>
      validating == guidelines # << >>
  IN
  \E ans \in IF validating THEN FrameValidationAnswers ELSE {NoVerdict} :
    LET first == ValidateResponse(audit, response_text, guidelines, s,
                                  context.journey_id, ans, NULL, FALSE)
    IN
    \E fix \in IF first.fix_calls > 0 THEN FixAnswers ELSE {NULL},
       auditFails \in IF first.audit_attempted THEN BOOLEAN ELSE {FALSE} :
      LET r == ValidateResponse(audit, response_text, guidelines, s,
                                context.journey_id, ans, fix, auditFails)
          replaced == /\ validating /\ ~r.result.is_valid
                      /\ r.result.fixed_response \notin {NULL, ""}
      IN /\ Len(r.audit) <= MaxAudit
         /\ audit' = r.audit
         /\ vlast' = IF validating
                     THEN VObs(s, guidelines, ans, r, auditFails) ELSE vlast
         /\ frame' = [frame EXCEPT
                        !.op = "reply_frame", !.prompted = FALSE,
                        !.raised = FALSE,
                        !.validate_called = validating,
                        !.validated = guidelines,
                        !.text = response_text,
                        !.text_out = IF replaced THEN r.result.fixed_response
                                     ELSE response_text]

\* process_frame when get_active_context raises: the exception leaves the
\* generator before "yield frame".
ReplyNotForwarded(response_text) ==
  /\ frame' = [frame EXCEPT
                 !.op = "reply_frame", !.prompted = FALSE, !.raised = TRUE,
                 !.validate_called = FALSE, !.validated = << >>,
                 !.text = response_text, !.text_out = NULL]
  /\ UNCHANGED <<audit, vlast>>

\* ValidatorProcessor.process_frame on the TextFrame with the model's reply:
\* get_active_context raises, or the frame is validated and forwarded.
ReplyFrame ==
  /\ frame.prompted
  /\ \E s \in {"s1"}, response_text \in Replies, storeFails \in BOOLEAN :
       IF storeFails THEN ReplyNotForwarded(response_text)
       ELSE ReplyValidated(s, response_text)
  /\ UNCHANGED <<jvars, tvars, hvars, ovars, mvars, rvars, dvars>>

ValidatorInit ==
  /\ audit = << >>
  /\ vlast = NoVObs
  /\ frame = NoFrame

Init ==
  /\ JourneyInit /\ ToolInit /\ ValidatorInit /\ HandleInit /\ ObjectInit
  /\ MatcherInit /\ GuidelineInit /\ LoaderInit

Next ==
  \/ ProcessMessage
  \/ ExecuteTransition
  \/ CompleteJourney
  \/ SetContextVariable
  \/ LoadJourneyDefinitions
  \/ ExpireL2

Spec == Init /\ [][Next]_vars

\* Turns of the sessions in any order, no durable-store call failing and
\* the model matching claim_inquiry, matching nothing or failing; journeys
\* completed and activation entries expiring in between.
SessionActivationAnswers == {Result(TRUE, "J1", 9), Result(FALSE, NULL, 9), NoResult}
ProcessMessageAnySession ==
  ProcessMessageWith(Sessions, {"none"}, SessionActivationAnswers)

NextSessions == ProcessMessageAnySession \/ CompleteJourney \/ ExpireL2

SpecSessions == Init /\ [][NextSessions]_vars

\* Session s1 served by process_message turns (no durable-store call
\* failing) while a caller of the engine works on a context object it loaded
\* and another completes the session's journey.
ProcessMessageHealthy ==
  ProcessMessageWith({"s1"}, {"none"}, SessionActivationAnswers)

NextHandles ==
  \/ ProcessMessageHealthy
  \/ GetActiveContextCall
  \/ ExecuteTransitionHeld
  \/ CompleteJourneyHeld
  \/ SetContextVariableHeld
  \/ CompleteJourney

SpecHandles == Init /\ [][NextHandles]_vars

\* The methods of one JourneyContext object called in any order.
NextContext ==
  NewJourneyContext \/ NewCreatedContext \/ TransitionToCall \/ CompleteCall \/ Tick

SpecContext == Init /\ [][NextContext]_vars

\* Calls of execute by concurrent tasks, interleaved at their awaits.
BeginCall == \E p \in Callers : Begin(p, FALSE)
Get == \E p \in Callers : GetCount(p)
Put == \E p \in Callers : PutCount(p)
Run == \E p \in Callers : Invoke(p)
Reject == \E p \in Callers : Rejected(p)

NextTool == BeginCall \/ Get \/ Put \/ Run \/ Reject \/ Expire

SpecTool == Init /\ [][NextTool]_vars

\* Calls of execute issued one after another: a call starts when no other is
\* in progress.
BeginNext == \E p \in Callers : Begin(p, TRUE)

NextToolSeq == BeginNext \/ Get \/ Put \/ Run \/ Reject \/ Expire

SpecToolSeq == Init /\ [][NextToolSeq]_vars

\* Calls of verify_customer_identity issued one after another by one task,
\* with a key/value operation of the rate-limit step failing in some.
BeginFault == BeginOf(1, TRUE, {"verify_customer_identity"}, KVFaults)

NextFault == BeginFault \/ Get \/ Put \/ Run \/ Reject \/ Expire

SpecFault == Init /\ [][NextFault]_vars

\* Calls of execute issued one after another by one task, of a tool with a
\* rate limit and a result cache and of an unknown tool, with a key/value
\* operation of the rate-limit step failing in some.
BeginExec == BeginOf(1, TRUE, {"check_policy_coverage", UnknownTool}, KVFaults)
ProbeCache == \E p \in Callers : Probe(p)

NextExec ==
  BeginExec \/ Get \/ Put \/ ProbeCache \/ Run \/ Reject \/ Expire \/ ExpireL3

SpecExec == Init /\ [][NextExec]_vars

\* Calls of get_customer_info issued one after another by the tasks, the
\* key/value service healthy.
BeginLookup ==
  \E p \in Callers : BeginOf(p, TRUE, {"get_customer_info"}, {"none"})

NextCache == BeginLookup \/ ProbeCache \/ Run \/ ExpireL3

SpecCache == Init /\ [][NextCache]_vars

\* Calls of two cached tools issued one after another by one task, with the
\* time between them passing in steps.
BeginTimed == BeginOf(1, TRUE, {"get_customer_info", "quick_quote"}, {"none"})

NextTimed == BeginTimed \/ ProbeCache \/ Run \/ Elapse

SpecTimed == Init /\ [][NextTimed]_vars

\* Calls of ResponseValidator.validate_response.
NextValidator == ValidateResponseCall

SpecValidator == Init /\ [][NextValidator]_vars

\* The turns of one session through the pipeline.
NextPipeline == JourneyFrame \/ ReplyFrame

SpecPipeline == Init /\ [][NextPipeline]_vars

\* match_guidelines called on its own, the model's answer unconstrained.
NextMatcher == MatchGuidelinesCall \/ MatchGuidelinesDone

SpecMatcher == Init /\ [][NextMatcher]_vars

\* get_priority_score on pairs of Guideline objects.
NextScore == GetPriorityScores \/ GuidelineDone

SpecScore == Init /\ [][NextScore]_vars

\* Guideline objects built by the loader and by the store.
NextLoader == ParseGuideline \/ LoadGuidelineRow \/ GuidelineDone

SpecLoader == Init /\ [][NextLoader]_vars

\* Journey definition files loaded from a directory.
NextJourneyLoader == LoadJourneysFromDirectory \/ LoadDone

SpecJourneyLoader == Init /\ [][NextJourneyLoader]_vars

\* match_guidelines called with the empty message only.
NextEmpty == MatchGuidelinesEmpty \/ MatchGuidelinesDone

SpecEmpty == Init /\ [][NextEmpty]_vars

(********************************* claims ***********************************)
IsTurn == last.op = "process_message"

\* C1: every journey context's current_state, in memory and in its durable
\* row, is a key of the state map of the journey the context references.
C1_CurrentStateValid ==
  /\ \A i \in 1..Len(db) : db[i].current_state \in Journeys[db[i].journey_id].states
  /\ last.context.id # 0 =>
       last.context.current_state \in Journeys[last.context.journey_id].states

\* C2: can_transition returns null or the to_state of a transition the journey
\* declares from the current state.
C2_TargetIsDeclared ==
  (IsTurn /\ last.can_transition_called /\ last.target # NULL) =>
    last.target \in DeclaredTargets(Journeys[last.pre.journey_id], last.from_state)

\* C3: under every interleaving of concurrent execute calls with one
\* identifier, at most max_calls of them reach the callable within one window.
C3_AtMostMaxCallsPerWindow ==
  \A id \in RateLimitKeys :
    window[id].admitted <= max_calls /\ window[id].invoked <= max_calls

\* C4: with calls issued one after another, a call is admitted and runs the
\* callable exactly when fewer than max_calls calls with its identifier were
\* admitted before it in the window; the call after max_calls admitted ones is
\* rejected, and a rejected call runs no callable.
C4_SequentialLimit ==
  /\ \A id \in RateLimitKeys :
       /\ window[id].invoked <= window[id].admitted
       /\ window[id].admitted <= max_calls
  /\ \A p \in Callers :
       local[p].identifier # NULL =>
         /\ pc[p] \in {"write", "invoke"} => local[p].prior < max_calls
         /\ pc[p] = "rate_limited" =>
              /\ local[p].prior >= max_calls
              /\ window[RateLimitKey(local[p].tool, local[p].identifier)].invoked
                   = window[RateLimitKey(local[p].tool, local[p].identifier)].admitted

\* The call after max_calls admitted calls is being rejected, all of the
\* admitted ones having run the callable.
C4_Witness ==
  \E p \in Callers :
    /\ pc[p] = "rate_limited"
    /\ local[p].prior = max_calls
    /\ window[RateLimitKey(local[p].tool, local[p].identifier)].invoked = max_calls

\* C5: whenever the counter of (tool, identifier) exists it carries the expiry
\* set at its first increment, whatever the interleaving of calls and expiry.
C5_CounterCarriesExpiry ==
  \A id \in RateLimitKeys : kv[id].present => kv[id].ttl

C7_ActivationThreshold ==
  (IsTurn /\ last.created) =>
    /\ last.result.matched
    /\ last.result.journey_id \in EnabledIds
    /\ last.result.confidence >= 6

\* C8: a failed model call in activate_journey or can_transition raises
\* nothing; after the former no context exists, after the latter the context
\* and its durable row are as they were before can_transition.
C8_ModelFailureDegrades ==
  [][(last'.op = "process_message" /\ last'.model_failed # NULL) =>
       /\ ~last'.raised
       /\ ~last'.transition_occurred
       /\ last'.model_failed = "activate_journey" =>
            /\ db' = db
            /\ ~last'.created /\ last'.context = NoContext
            /\ GetActiveContext(db', last'.session) = NoContext
       /\ last'.model_failed = "can_transition" =>
            /\ db' = IF last'.created THEN Append(db, last'.pre) ELSE db
            /\ last'.context = last'.pre
            /\ db'[last'.pre.id] = last'.pre]_vars

\* The model call of can_transition failed in a turn on an existing context.
C8_Witness ==
  /\ IsTurn /\ last.model_failed = "can_transition"
  /\ last.had_context /\ last.can_transition_called

\* C9: when the durable write of update_context fails while a transition is
\* applied, the error leaves execute_transition and process_message, the row
\* keeps the state and history it had before the transition, and a retried
\* turn loads that context.
C9_WriteFailurePropagates ==
  [][(last'.op \in {"process_message", "execute_transition"}
        /\ last'.fault = "update_context") =>
       /\ last'.raised
       /\ db' = IF last'.created THEN Append(db, last'.pre) ELSE db
       /\ db'[last'.pre.id].current_state = last'.pre.current_state
       /\ db'[last'.pre.id].state_history = last'.pre.state_history
       /\ last'.op = "process_message" =>
            GetActiveContext(db', last'.session) = last'.pre]_vars

\* The write failed in a turn whose transition had been decided.
C9_Witness ==
  /\ IsTurn /\ last.fault = "update_context" /\ last.raised
  /\ last.target # NULL
  /\ last.context.current_state = last.target
  /\ db[last.pre.id].current_state = last.from_state

\* C10: a failing durable-store read (the active context, a journey
\* definition) is treated as absent and process_message raises nothing.
C10_ReadFailureIsAbsent ==
  (IsTurn /\ last.fault \in {"get_active_context", "get_journey"}) => ~last.raised

IsValidation == vlast.op = "validate_response"

\* C11: every call of validate_response whose audit INSERT the durable store
\* accepts adds one row to validation_audit, whatever the call's outcome.
C11_EveryCallAudited ==
  [][(vlast'.op = "validate_response" /\ ~vlast'.audit_failed) =>
       Len(audit') = Len(audit) + 1]_vars

\* C12: validate_response issues the correction call exactly when the model's
\* verdict is invalid with a non-empty suggested_fixes, and at most once;
\* fixed_response is set only then and only when the correction call
\* succeeded; when it failed, fixed_response is null and the verdict returned
\* is still invalid.
C12_CorrectionCall ==
  IsValidation =>
    /\ vlast.fix_calls <= 1
    /\ vlast.fix_calls = 1 <=>
         /\ vlast.model_calls = 1 /\ ~vlast.answer.failed
         /\ ~vlast.answer.is_valid /\ vlast.answer.suggested_fixes # << >>
    /\ vlast.result.fixed_response # NULL => (vlast.fix_calls = 1 /\ ~vlast.fix_failed)
    /\ vlast.fix_failed =>
         (vlast.result.fixed_response = NULL /\ ~vlast.result.is_valid)

\* A correction call was issued and failed.
C12_Witness ==
  /\ IsValidation /\ vlast.fix_calls = 1 /\ vlast.fix_failed
  /\ ~vlast.result.is_valid

\* C13: when the validation model call fails, validate_response raises
\* nothing and returns is_valid true, no violations, confidence 0.0 and no
\* fixed_response.
C13_FailedCallAssumesValid ==
  (IsValidation /\ vlast.model_calls = 1 /\ vlast.answer.failed) =>
    /\ ~vlast.raised
    /\ vlast.result.is_valid
    /\ vlast.result.violations = << >>
    /\ vlast.result.confidence = 0
    /\ vlast.result.fixed_response = NULL

\* The validation model call was issued and failed.
C13_Witness ==
  /\ IsValidation /\ vlast.model_calls = 1 /\ vlast.answer.failed
  /\ vlast.guidelines # << >>

\* C14: within one turn the validator checks the reply against the guideline
\* set that match_guidelines returned and that was injected into the prompt
\* of that turn.
C14_SameGuidelineSet ==
  (frame.op = "reply_frame" /\ frame.validate_called) =>
    /\ frame.inject_called
    /\ Range(frame.validated) = Range(frame.injected)

\* C15: a process_message turn during which every key/value operation fails
\* (and no durable-store call does) raises nothing and leaves the table and
\* returns the context, state and meta that the turn gives, for the same
\* model answers, with the key/value service healthy and its caches empty.
C15_KVOutageSameResult ==
  [][(last'.op = "process_message" /\ ~last'.kv_ok /\ last'.fault = NULL) =>
       /\ ~last'.raised
       /\ \E u \in Utterances,
             ans \in IF last'.had_context THEN {NoResult} ELSE ActivationAnswers,
             tr \in IF last'.can_transition_called THEN TransitionAnswers
                    ELSE {NoAnswer} :
            LET healthy == Turn(db, {}, EmptyL2, last'.session, u, TRUE, "none", ans, tr)
            IN /\ healthy.db = db'
               /\ [healthy.obs EXCEPT !.kv_ok = FALSE] = last']_vars

\* A turn with the key/value service failing, on warm caches, activated a
\* journey.
C15_Witness ==
  /\ IsTurn /\ ~last.kv_ok /\ ~last.raised /\ last.created
  /\ l1 # {} /\ l2[<<"s1", "u1">>].present

\* C16: when a key/value operation of the rate-limit step fails (the counter
\* read, the initial set or the increment), execute raises neither
\* RateLimitExceededError nor the key/value error and goes on to the cache
\* probe and the callable.
C16_RateLimitKVFailureProceeds ==
  \A p \in Callers :
    LET c == local[p]
        readFailed == c.kv_fault = "get" /\ "rate_check" \in Range(c.trace)
        setFailed == /\ c.kv_fault = "set" /\ c.current_count = 0
                     /\ "rate_incr" \in Range(c.trace)
        incrFailed == /\ c.kv_fault = "incr" /\ c.current_count # 0
                      /\ "rate_incr" \in Range(c.trace)
    IN (readFailed \/ setFailed \/ incrFailed) =>
         /\ c.outcome \notin {"kv_error", "rate_limited"}
         /\ pc[p] \in {"write", "probe", "invoke", "idle"}

\* The steps execute takes for a tool, in the order of the claim: lookup,
\* rate-limit check and increment, cache probe, callable, caching.
StepsInOrder(tool, identifier) ==
  <<"lookup">>
  \o (IF Tools[tool].rate_limit /\ identifier # NULL
      THEN <<"rate_check", "rate_incr">> ELSE << >>)
  \o (IF Tools[tool].cache_ttl > 0 THEN <<"probe">> ELSE << >>)
  \o <<"run">>
  \o (IF Tools[tool].cache_ttl > 0 THEN <<"store">> ELSE << >>)

IsPrefix(s, t) == Len(s) <= Len(t) /\ SubSeq(t, 1, Len(s)) = s

\* C17: the steps of a call are taken in the order lookup, rate-limit check
\* and increment, cache probe, callable, caching; a call of an unknown tool
\* takes the lookup only and changes no counter and no cache entry; a call
\* the rate limit rejects has not probed the cache.
C17_StepOrder ==
  [][\A p \in Callers :
       LET c == local'[p]
       IN /\ c.tool \in ToolNames =>
               IsPrefix(c.trace, StepsInOrder(c.tool, c.identifier))
          /\ (c.outcome = "not_found" /\ local[p] # c) =>
               (c.trace = <<"lookup">> /\ kv' = kv /\ l3' = l3)
          /\ c.outcome = "rate_limited" =>
               c.trace = <<"lookup", "rate_check">>]_vars

\* A call was rejected by the rate limit while a result for its arguments
\* was in the cache.
C17_Witness ==
  \E p \in Callers :
    /\ local[p].outcome = "rate_limited"
    /\ local[p].tool = "check_policy_coverage"
    /\ l3[<<local[p].tool, local[p].identifier>>].present

\* C18: a call of a cached tool that probes the cache while the entry an
\* earlier call with the same arguments stored is still there does not run
\* the callable and returns the result of the call that stored the entry.
C18_SecondCallServedFromCache ==
  [][\A p \in Callers :
       LET key == <<local[p].tool, local[p].identifier>>
       IN (pc[p] = "probe" /\ pc'[p] # "probe" /\ l3[key].present) =>
            /\ pc'[p] = "idle"
            /\ local'[p].outcome = "cache_hit"
            /\ local'[p].result = l3[key].produced
            /\ "run" \notin Range(local'[p].trace)
            /\ l3' = l3]_vars

\* A second call was served the empty list the first call produced.
C18_Witness ==
  \E p \in Callers :
    /\ local[p].outcome = "cache_hit" /\ local[p].result = "empty_list"
    /\ local[p].trace = <<"lookup", "probe">>

\* The table and the activation cache as they are when session s runs alone:
\* the session's own rows (a row's id is its position) and its own entries.
OwnRows(d, s) == SelectSeq(d, LAMBDA row : row.session_id = s)
Renumber(d) == [i \in 1..Len(d) |-> [d[i] EXCEPT !.id = i]]
Alone(d, s) == Renumber(OwnRows(d, s))
AloneL2(l2v, s) == [k \in DOMAIN l2v |-> IF k[1] = s THEN l2v[k] ELSE NoResult]

\* An observation with the ids of its contexts left out of the comparison.
ButIds(obs) ==
  [obs EXCEPT !.context.id = IF @ = 0 THEN 0 ELSE 1,
              !.pre.id = IF @ = 0 THEN 0 ELSE 1]

\* C19: a process_message turn of session s leaves the rows and the
\* activation-cache entries of every other session as they were, and what
\* it returns and does to its own rows is what the same turn returns and
\* does, for the same model answers, on a table and a cache that hold the
\* rows and entries of s only.
C19_SessionsIndependent ==
  [][last'.op = "process_message" =>
       LET s == last'.session
           fault == IF last'.fault = NULL THEN "none" ELSE last'.fault
       IN /\ Len(db') >= Len(db)
          /\ \A i \in 1..Len(db) : db[i].session_id # s => db'[i] = db[i]
          /\ \A i \in (Len(db) + 1)..Len(db') : db'[i].session_id = s
          /\ \A k \in DOMAIN l2 : k[1] # s => l2'[k] = l2[k]
          /\ \E u \in Utterances,
                ans \in IF last'.had_context THEN {NoResult} ELSE ActivationAnswers,
                tr \in IF last'.can_transition_called THEN TransitionAnswers
                       ELSE {NoAnswer} :
               LET alone == Turn(Alone(db, s), l1, AloneL2(l2, s), s, u,
                                 last'.kv_ok, fault, ans, tr)
               IN /\ ButIds(alone.obs) = ButIds(last')
                  /\ alone.db = Alone(db', s)]_vars

\* A turn of s1 activated a journey while s2 had a context that had moved
\* on from its initial state and an activation entry of its own.
C19_Witness ==
  /\ IsTurn /\ last.session = "s1" /\ last.created /\ ~last.raised
  /\ \E i \in 1..Len(db) :
       /\ db[i].session_id = "s2" /\ db[i].completed_at = 0
       /\ db[i].current_state = "provide_status"
  /\ l2[<<"s2", "u1">>].present

\* C20: a row whose completed_at is set keeps it set through every
\* operation, and get_active_context of its session does not return the row
\* afterwards.
C20_CompletedStaysCompleted ==
  [][\A i \in 1..Len(db) :
       db[i].completed_at # 0 =>
         /\ db'[i].completed_at # 0
         /\ GetActiveContext(db', db[i].session_id).id # i]_vars

\* C21: complete_journey on a context whose completed_at is already set
\* issues no durable write and leaves the table and the context
\* (completed_at, current_state, state_history) as they were.
C21_CompleteTwiceIsNoOp ==
  [][(last'.op = "complete_journey" /\ last'.pre.completed_at # 0) =>
       /\ db' = db
       /\ last'.context = last'.pre
       /\ ~last'.wrote /\ last'.fault = NULL /\ ~last'.raised]_vars

\* complete_journey was called on a completed context.
C21_Witness ==
  /\ last.op = "complete_journey" /\ last.pre.completed_at # 0
  /\ last.context.completed_at # 0

\* C22: after complete() completed_at is set and is_active() is false, and
\* a complete() on a context whose completed_at is set leaves completed_at
\* as it was.
C22_CompleteSetsOnce ==
  [][object'.op = "complete" =>
       /\ object'.context.completed_at # 0
       /\ ~is_active(object'.context)
       /\ object.context.completed_at # 0 =>
            object'.context.completed_at = object.context.completed_at]_vars

\* C23: transition_to(s) on a context in state r gives current_state s, the
\* history extended by exactly one state_transition event from r to s, and
\* an updated_at that has not decreased.
C23_TransitionRecorded ==
  [][object'.op = "transition_to" =>
       /\ object'.context.current_state = object'.arg
       /\ object'.context.state_history
            = Append(object.context.state_history,
                     Event("state_transition", object.context.current_state,
                           object'.arg))
       /\ object'.context.updated_at >= object.context.updated_at]_vars

\* transition_to moved a context made by create_context to another state.
C23_Witness ==
  /\ object.op = "transition_to" /\ object.made_by = "create_context"
  /\ object.context.current_state = "provide_status"
  /\ Len(object.context.state_history) = 2

\* C24: the first transition_to on a newly made context, whose history
\* already holds its initial entry, leaves a history of exactly two entries.
C24_InitialEntryBeforeTransition ==
  [][(/\ object'.op = "transition_to"
      /\ object.op \in {"construct", "create_context"}) =>
       /\ Len(object.context.state_history) = 1
       /\ Len(object'.context.state_history) = 2]_vars

\* C25: a turn of a session without an active context whose activation
\* answer is a match naming an enabled journey, no call failing, creates a
\* context of the session that starts at the journey's initial_state, returns
\* is_new_journey and journey_activated true, and leaves exactly one
\* journey_activated event in the history of the context and of its row.
C25_ColdActivation ==
  (/\ IsTurn /\ ~last.had_context /\ ~last.raised /\ last.fault = NULL
   /\ last.result.present /\ last.result.matched
   /\ last.result.journey_id \in EnabledIds) =>
    LET context == last.context
        journey == Journeys[last.result.journey_id]
        activations(h) == {i \in 1..Len(h) : h[i].event = "journey_activated"}
    IN /\ last.created /\ last.is_new_journey /\ last.journey_activated
       /\ context.id \in 1..Len(db)
       /\ context.session_id = last.session /\ context.journey_id = journey.id
       /\ Len(context.state_history) >= 1
       /\ context.state_history[1]
            = Event("journey_activated", NULL, journey.initial_state)
       /\ activations(context.state_history) = {1}
       /\ activations(db[context.id].state_history) = {1}
       /\ ~last.transition_occurred => context.current_state = journey.initial_state

\* A cold turn activated claim_inquiry and stayed in its initial state.
C25_Witness ==
  /\ IsTurn /\ ~last.had_context /\ last.created /\ ~last.raised
  /\ last.result.journey_id = "J1" /\ ~last.transition_occurred
  /\ last.context.current_state = "verify_identity"

\* What activate_journey yields on the model's answer: the journey of a
\* match that names an enabled journey, else none.
Yielded(answer) ==
  IF answer.present /\ answer.matched /\ answer.journey_id \in EnabledIds
  THEN answer.journey_id ELSE NULL

\* C27: with the key/value service healthy and no durable-store call
\* failing, activate_journey stores the model's answer under (session,
\* utterance) whether or not it is a match; and when an answer is stored
\* under (session, utterance) activate_journey asks no model, raises nothing
\* and yields the journey (or none) that the stored answer yielded.
C27_ActivationCached ==
  [][(/\ last'.op = "process_message" /\ last'.activate_called
      /\ last'.kv_ok /\ last'.fault = NULL) =>
       \A u \in Utterances :
         LET key == <<last'.session, u>>
         IN /\ (last'.model_called /\ last'.result.present) =>
                 l2'[key] = last'.result
            /\ l2[key].present =>
                 /\ ~last'.model_called
                 /\ ~last'.raised
                 /\ last'.result = l2[key]
                 /\ last'.created <=> Yielded(l2[key]) # NULL]_vars

\* C26: when execute_transition, complete_journey or set_context_variable
\* has returned normally, the row of the context equals the in-memory
\* context on current_state, variables, state_history and completed_at.
C26_PersistedOnReturn ==
  (/\ last.op \in {"execute_transition", "complete_journey", "set_context_variable"}
   /\ ~last.raised) =>
    LET context == last.context
        row == db[context.id]
    IN /\ row.current_state = context.current_state
       /\ row.variables = context.variables
       /\ row.state_history = context.state_history
       /\ row.completed_at = context.completed_at

IsMatchCall == mlast.op = "match_guidelines"

\* A verdict that applies, with a confidence in 0.6..1.0 and the id of a
\* candidate.
Qualifies(v, candidates) ==
  /\ v.applies
  /\ v.confidence >= 6
  /\ v.confidence <= 10
  /\ v.guideline_id \in candidates

\* C28: when the stage-2 model call succeeds, _batch_evaluate_guidelines hands
\* back exactly the qualifying verdicts of the answer, in the answer's order:
\* a verdict with an unknown or malformed id or an out-of-range confidence is
\* left out and the qualifying ones stay.
C28_QualifyingVerdictsKept ==
  (IsMatchCall /\ ~mlast.answer.failed /\ mlast.candidates # {})
    => mlast.kept = SelectSeq(mlast.answer.matches,
                              LAMBDA v : Qualifies(v, mlast.candidates))

ScoreOf(v) == get_priority_score(v.guideline_id, mlast.journey_id, mlast.state_name)

\* C29: the list match_guidelines returns is in non-increasing order of
\* priority score, each match in it has confidence >= 0.6 and the id of a
\* stage-1 candidate, and each stage-1 candidate matches the call's journey
\* and state.
C29_ReturnedSortedAndInScope ==
  IsMatchCall =>
    /\ \A i, j \in DOMAIN mlast.returned :
         i < j => ScoreOf(mlast.returned[i]) >= ScoreOf(mlast.returned[j])
    /\ \A i \in DOMAIN mlast.returned :
         /\ mlast.returned[i].confidence >= 6
         /\ mlast.returned[i].guideline_id \in mlast.candidates
    /\ \A g \in mlast.candidates :
         matches_scope(g, mlast.journey_id, mlast.state_name)

\* Two matches of different score come back in the other order than the
\* model wrote them.
C29_Witness ==
  /\ IsMatchCall
  /\ Len(mlast.returned) = 2
  /\ mlast.returned # mlast.kept
  /\ ScoreOf(mlast.returned[1]) > ScoreOf(mlast.returned[2])

\* The guideline ids in ascending order of name: confirm_identity_first,
\* no_exact_amounts, no_legal_advice, offer_callback, retired_notice.
ByName == <<"G3", "G2", "G1", "G5", "G4">>
NameRank(g) == CHOOSE i \in DOMAIN ByName : ByName[i] = g

\* C30: in the list match_guidelines returns, of two matches with the same
\* priority score the one whose guideline name sorts first comes first,
\* whatever the order of the model's verdicts.
C30_TiesInNameOrder ==
  IsMatchCall =>
    \A i, j \in DOMAIN mlast.returned :
      (i < j /\ ScoreOf(mlast.returned[i]) = ScoreOf(mlast.returned[j]))
        => NameRank(mlast.returned[i].guideline_id)
             <= NameRank(mlast.returned[j].guideline_id)

\* C31: a call of match_guidelines with the empty message finds no keyword
\* candidate and returns the empty list, whatever the journey and state.
C31_EmptyUtteranceNoMatches ==
  (IsMatchCall /\ mlast.user_message = EmptyUtterance)
    => /\ get_candidates_by_keywords(extract_keywords(mlast.user_message)) = {}
       /\ mlast.returned = << >>

IsScoring == glast.op = "get_priority_score"

\* How specific a scope is.
Specificity(scope) ==
  CASE scope = "STATE" -> 3 [] scope = "JOURNEY" -> 2 [] OTHER -> 1

BothMatch ==
  /\ matches_scope_of(glast.guideline, glast.journey_id, glast.state_name)
  /\ matches_scope_of(glast.other, glast.journey_id, glast.state_name)

\* C32: of two guidelines that match the journey and state and have the same
\* numeric priority, the one of the more specific scope (STATE over JOURNEY
\* over GLOBAL) has the greater score; a guideline that does not match the
\* journey and state has score 0.
C32_ScopeOrdersEqualPriority ==
  IsScoring =>
    /\ (BothMatch /\ glast.guideline.priority = glast.other.priority
          /\ Specificity(glast.guideline.scope) > Specificity(glast.other.scope))
         => glast.score > glast.other_score
    /\ ~matches_scope_of(glast.guideline, glast.journey_id, glast.state_name)
         => glast.score = 0

\* A STATE and a JOURNEY guideline of priority 50, both matching, were scored.
C32_Witness ==
  /\ IsScoring /\ BothMatch
  /\ glast.guideline.scope = "STATE" /\ glast.other.scope = "JOURNEY"
  /\ glast.guideline.priority = 50 /\ glast.other.priority = 50
  /\ glast.score = 3050 /\ glast.other_score = 2050

\* C35: of two guidelines that match the journey and state, the one of the
\* more specific scope has the strictly greater score whatever the numeric
\* priorities; within one scope the score orders as the numeric priority;
\* and a matching guideline has a score above 0.
C35_ScopeDominatesPriority ==
  (IsScoring /\ BothMatch) =>
    /\ Specificity(glast.guideline.scope) > Specificity(glast.other.scope)
         => glast.score > glast.other_score
    /\ glast.guideline.scope = glast.other.scope
         => (glast.score > glast.other_score
               <=> glast.guideline.priority > glast.other.priority)
    /\ glast.score > 0

\* C33: a Guideline object that the loader or the store built has journey_id
\* and state_name set when its scope is STATE, journey_id set when its scope is
\* JOURNEY, and neither set when its scope is GLOBAL.
C33_ScopeFieldsConsistent ==
  (glast.op \in {"parse_guideline", "load_guideline_definitions"} /\ ~glast.raised)
    => /\ glast.guideline.scope = "STATE"
            => (glast.guideline.journey_id # NULL /\ glast.guideline.state_name # NULL)
       /\ glast.guideline.scope = "JOURNEY" => glast.guideline.journey_id # NULL
       /\ glast.guideline.scope = "GLOBAL"
            => (glast.guideline.journey_id = NULL /\ glast.guideline.state_name = NULL)

IsLoad == dlast.op = "load_journeys_from_directory"

\* C34: loading a directory in which two files define a journey of the same
\* name raises a validation error, and the list returned never holds two
\* journeys of the same name.
C34_DuplicateNamesRejected ==
  IsLoad =>
    /\ (\E i, j \in DOMAIN dlast.files :
          i # j /\ dlast.files[i].name = dlast.files[j].name) => dlast.raised
    /\ \A i, j \in DOMAIN dlast.journeys :
          i # j => dlast.journeys[i].name # dlast.journeys[j].name

\* C36: a call is answered from the result cache only when the entry is
\* younger than the tool's cache_ttl seconds; an entry of that age or older is
\* not served and the callable runs.
C36_ServedWithinCacheTtl ==
  [][\A p \in Callers :
       LET key == <<local[p].tool, local[p].identifier>>
       IN (pc[p] = "probe" /\ pc'[p] = "idle" /\ local'[p].outcome = "cache_hit")
            => l3_ttl - l3[key].ttl < Tools[local[p].tool].cache_ttl]_vars

\* The session's rows with completed_at null.
ActiveRows(s) == {i \in 1..Len(db) : db[i].session_id = s /\ db[i].completed_at = 0}

\* C37: with the turns of a session processed one at a time, the durable
\* store holds at most one context of the session with completed_at null,
\* after any sequence of turns and completions.
C37_AtMostOneActiveContext ==
  \A s \in Sessions : Cardinality(ActiveRows(s)) <= 1

\* A turn found the session's earlier context completed and created the
\* session's second context, now its only active one.
C37_Witness ==
  /\ last.op = "process_message" /\ last.created /\ ~last.raised
  /\ Len(OwnRows(db, "s1")) = 2
  /\ Cardinality(ActiveRows("s1")) = 1

\* C38: a turn that activates a journey and meets no failing store call goes
\* on to can_transition with the same utterance, from the journey's initial
\* state; when can_transition names a target the turn returns with
\* is_new_journey and transition_occurred both set and the new context at the
\* target, its history the activation followed by the transition.
C38_ActivationTurnCanTransition ==
  (IsTurn /\ last.is_new_journey /\ ~last.raised /\ last.fault = NULL) =>
    LET journey == Journeys[last.context.journey_id]
    IN /\ last.can_transition_called
       /\ last.from_state = journey.initial_state
       /\ last.target # NULL =>
            /\ last.transition_occurred
            /\ last.context.current_state = last.target
            /\ last.context.state_history
                 = << Event("journey_activated", NULL, journey.initial_state),
                      Event("state_transition", journey.initial_state, last.target) >>

\* One turn returned with both flags set and the new context off the initial
\* state.
C38_Witness ==
  /\ IsTurn /\ ~last.had_context /\ ~last.raised
  /\ last.is_new_journey /\ last.transition_occurred
  /\ last.context.current_state = "provide_status"
  /\ db[last.context.id].current_state = "provide_status"

\* The state_transition events of a history, in order.
Transitions(h) == SelectSeq(h, LAMBDA e : e.event = "state_transition")

\* The transitions of a context form a chain from the journey's initial state
\* to its current state.
IsChain(ctx) ==
  LET t == Transitions(ctx.state_history)
      initial == Journeys[ctx.journey_id].initial_state
  IN /\ \A k \in 1..Len(t) :
          t[k].from_state = IF k = 1 THEN initial ELSE t[k - 1].to_state
     /\ ctx.current_state = IF t = << >> THEN initial ELSE t[Len(t)].to_state

\* C39: every operation leaves the events a context's row already holds in
\* place and only appends; in every row the from_state of each
\* state_transition event is the to_state of the one before it (the
\* journey's initial state for the first) and the to_state of the last one is
\* current_state.
C39_HistoryAppendOnlyChain ==
  [][/\ \A i \in 1..Len(db) :
          /\ i <= Len(db')
          /\ IsPrefix(db[i].state_history, db'[i].state_history)
     /\ \A i \in 1..Len(db') : IsChain(db'[i])]_vars

\* C40: the validator stage forwards every reply frame; the text forwarded is
\* fixed_response when validate_response was called, found the reply invalid
\* and a fixed response exists, and the reply's own text in every other case.
C40_ReplyForwardedOnce ==
  frame.op = "reply_frame" =>
    LET fixed == /\ frame.validate_called
                 /\ ~vlast.result.is_valid
                 /\ vlast.result.fixed_response \notin {NULL, ""}
    IN /\ frame.text_out # NULL
       /\ frame.text_out = IF fixed THEN vlast.result.fixed_response ELSE frame.text

====
